---- MODULE Spec2Model ----
(***************************************************************************)
(* A model of the RapidHA serial protocol driver (rapidha/rapidha.py):     *)
(* the dispatch bus used by RapidHADevice, the bring-up state machine      *)
(* (startup_handler), the network-join workflow (add_device and its        *)
(* 60-second timer), the Synchronous adapter and the reader thread.        *)
(***************************************************************************)
EXTENDS Integers, Sequences, FiniteSets, TLC

VARIABLES
    handlers,       \* self.dispatch.handlers: the list of registrations
    names,          \* self.dispatch.names: the set of registered names
    config_state,   \* self.config_state
    network_state,  \* self.network_state ("unset" before the first assignment)
    frame_seq,      \* self.frame_seq
    sent,           \* the commands written to the serial port, in order
    next_rid,       \* identity of the next registration object created
    rd_pc,          \* reader thread: "idle", "dispatch" (inside Dispatch.dispatch), "done"
    rd_pkt,         \* the packet being dispatched
    rd_idx,         \* position of the list iterator of the dispatch pass
    snap,           \* the registrations present when the pass began (observation)
    invoked,        \* the registrations whose callback ran in this pass, in order (observation)
    npass,          \* number of dispatch passes begun
    old_list,       \* the list the pass iterates once dispatch.handlers was rebound, else "live"
    sync_seen,      \* per synchronous call, the first packet its filter accepts that was
                    \* dispatched while its handler was registered (observation)
    result,         \* Synchronous.result: handler_id -> packet, as a set of entries
    call_pc,        \* caller context: position inside add_device / run_synchronous
    sync_id,        \* handler_id of the wrapped method the caller is running
    sync_n,         \* number of wrapped methods obtained from the adapter (uuid4 draws)
    sync_out,       \* outcome of each synchronous call: handler_id -> outcome
    ad_gen,         \* number of add_device calls begun
    timers,         \* the threading.Timer objects created by add_device, by call number
    join_calls,     \* invocations of the add_device completion callbacks, by call number
    user_sends,     \* commands the caller context issued directly
    rc_n,           \* number of reconfigure calls begun
    scenario,       \* progress of the received packets along the bring-up scenario (observation)
    scenario_lit,   \* the same for the scenario without the third startup_sync (observation)
    thread_continue, \* self._thread_continue, the stop flag of the reader thread
    serial_open,    \* whether self.serial is open
    rt_pc,          \* reader thread: its position in run / _wait_for_frame
    raw_data,       \* frame.raw_data of the frame _wait_for_frame is assembling
    wire,           \* bytes received by the serial port and not yet read
    feed,           \* bytes the module has still to transmit
    script,         \* the frames the module transmits, by kind (observation)
    delivered,      \* the packets handed to self._callback, in order (observation)
    dropped,        \* the exceptions that ended the handling of a frame (observation)
    cx_in,          \* the arguments of a codec function under study, <<>> when none
    cx_out,         \* its outcome, <<>> before the call
    enc,            \* per context, its position in the last lines of _build_command
    sync_names      \* the handler name of each synchronous call made, in order (observation)

vars == <<handlers, names, config_state, network_state, frame_seq, sent, next_rid,
          rd_pc, rd_pkt, rd_idx, snap, invoked, npass, old_list, sync_seen, result,
          call_pc,
          sync_id, sync_n, sync_out, ad_gen, timers, join_calls, user_sends, rc_n, scenario,
          scenario_lit, thread_continue, serial_open, rt_pc, raw_data, wire, feed,
          script, delivered, dropped, cx_in, cx_out, enc, sync_names>>

-----------------------------------------------------------------------------
(* Bounds of the model *)

MaxPass == 3        \* dispatch passes in the concurrent specification
MaxHandlers == 4    \* registrations made, the 'startup' one included
MaxSync == 2        \* synchronous calls
MaxAddDevice == 2   \* add_device calls
MaxUserSends == 1   \* commands issued by the caller during the bring-up
MaxBringUpHandlers == 2 \* registrations made in the bring-up specification

-----------------------------------------------------------------------------
(* Program constants *)

STATE_WAITING_STARTUP_SYNC == 1
STATE_STARTUP_RESET == 2
STATE_SERIAL_ACK == 3
STATE_HOST_STARTUP_READY == 4
STATE_HOST_STARTUP_READY_ACK == 5
STATE_CONFIGURE_DEVICE_TYPE == 6
STATE_CLEAR_ENDPOINTS == 7
STATE_ADD_ENDPOINTS_AND_CLUSTERS == 8
STATE_ADD_ATTRIBUTES == 9
STATE_ADD_ATTRIBUTES_ACK_AsAddAttributes == STATE_ADD_ATTRIBUTES
STATE_ADD_ATTRIBUTES_ACK == 10
STATE_STARTUP_SYNC_COMPLETE == 11
STATE_NETWORK_DOWN_AsSyncComplete == STATE_STARTUP_SYNC_COMPLETE
STATE_NETWORK_DOWN == 12
STATE_NETWORK_UP_AsSyncComplete == STATE_STARTUP_SYNC_COMPLETE
STATE_NETWORK_UP == 13

CONFIGURATION_STATE_FACTORY_DEFAULT == 0
CONFIGURATION_STATE_NEEDS_ENDPOINT_CONFIG == 1
CONFIGURATION_STATE_CONFIGURED_AsNeedsEndpoint == CONFIGURATION_STATE_NEEDS_ENDPOINT_CONFIG
CONFIGURATION_STATE_CONFIGURED == 2
RUNNING_STATE_STARTING == 0
RUNNING_STATE_RUNNING == 1

NETWORK_STATUS_DOWN == 0
NETWORK_STATUS_UP == 1
EVENT_LEAVE == 3
EVENT_JOIN == 0

SeqModulus == 256

\* The name the join handler and the sync handlers are registered under.
JOIN_NAME == "network_device_trust_response"
UUIDS == <<"uuid1", "uuid2", "uuid3", "uuid4">>

-----------------------------------------------------------------------------
(* Decoded packets: the dictionary _split_response returns, reduced to the  *)
(* keys the handlers and filters read.  A key a response does not carry is  *)
(* -1 here; the code reads it only after testing the packet's id.           *)

Pkt(id, fid, rs, cs, nst, ev) ==
    [id |-> id, frame_id |-> fid, running_state |-> rs, config_state |-> cs,
     network_status |-> nst, event |-> ev]

PacketsWith(fid) ==
    {Pkt("startup_sync", fid, rs, cs, -1, -1) :
        rs \in {RUNNING_STATE_STARTING, RUNNING_STATE_RUNNING},
        cs \in {CONFIGURATION_STATE_FACTORY_DEFAULT,
                CONFIGURATION_STATE_NEEDS_ENDPOINT_CONFIG,
                CONFIGURATION_STATE_CONFIGURED}}
    \cup {Pkt("status_response", fid, -1, -1, -1, -1)}
    \cup {Pkt("network_status_response", fid, -1, -1, nst, -1) :
            nst \in {NETWORK_STATUS_DOWN, NETWORK_STATUS_UP}}
    \cup {Pkt("network_device_trust_response", fid, -1, -1, -1, ev) :
            ev \in {EVENT_JOIN, EVENT_LEAVE}}

NoPacket == Pkt("none", -1, -1, -1, -1, -1)

Range(s) == {s[i] : i \in 1..Len(s)}

-----------------------------------------------------------------------------
(* The mutable objects the callbacks work on, gathered in one record so     *)
(* that a callback is a function from this record to the record after it.   *)

Env == [handlers |-> handlers, names |-> names, config_state |-> config_state,
        network_state |-> network_state, frame_seq |-> frame_seq, sent |-> sent,
        result |-> result, join_calls |-> join_calls, next_rid |-> next_rid]

Commit(s) ==
    /\ handlers' = s.handlers
    /\ names' = s.names
    /\ config_state' = s.config_state
    /\ network_state' = s.network_state
    /\ frame_seq' = s.frame_seq
    /\ sent' = s.sent
    /\ result' = s.result
    /\ join_calls' = s.join_calls
    /\ next_rid' = s.next_rid

(* RapidHA._build_command and RapidHA._write for a command whose fields are *)
(* all given: the counter is incremented modulo 256, the new value is the   *)
(* frame's sequence byte, and the frame is written to the serial port.      *)
Send_NothingWritten(s, cmd, payload) ==
    [s EXCEPT !.frame_seq = (s.frame_seq + 1) % SeqModulus]

Send(s, cmd, payload) ==
    LET seq == (s.frame_seq + 1) % SeqModulus
    IN [s EXCEPT !.frame_seq = seq,
                 !.sent = Append(s.sent, [cmd |-> cmd, frame_id |-> seq,
                                          payload |-> payload])]

(* Dispatch.register: a new registration object is appended to the list     *)
(* and its name added to the set of names.                                  *)
Register(s, name, cb, filt, arg) ==
    [s EXCEPT !.handlers = Append(s.handlers,
                  [name |-> name, cb |-> cb, filt |-> filt, arg |-> arg,
                   rid |-> s.next_rid]),
              !.names = s.names \cup {name},
              !.next_rid = s.next_rid + 1]

(* list.remove(x): the first element equal to x is removed. *)
RemoveFirst(hs, x) ==
    IF \E j \in 1..Len(hs) : hs[j] = x
    THEN LET j == CHOOSE k \in 1..Len(hs) :
                      hs[k] = x /\ \A m \in 1..(k - 1) : hs[m] # x
         IN SubSeq(hs, 1, j - 1) \o SubSeq(hs, j + 1, Len(hs))
    ELSE hs

(* The loop of unregister_dispatch: a generator walks the list by position  *)
(* while the loop body removes from that same list.  i is the position the  *)
(* generator reads next.                                                    *)
RECURSIVE RemoveScan(_, _, _)
RemoveScan(hs, i, name) ==
    IF i > Len(hs) THEN hs
    ELSE IF hs[i].name = name
         THEN RemoveScan(RemoveFirst(hs, hs[i]), i + 1, name)
         ELSE RemoveScan(hs, i + 1, name)

unregister_dispatch(s, name) ==
    [s EXCEPT !.handlers = RemoveScan(s.handlers, 1, name),
              !.names = s.names \ {name}]

(* The filters registered in the program. *)
Matches(filt, p) ==
    CASE filt = "all" -> TRUE
      [] filt = "join" -> p.id = "network_device_trust_response" /\ p.event # EVENT_LEAVE
      [] filt = "leave" -> p.id = "network_device_trust_response" /\ p.event = EVENT_LEAVE
      [] filt = "f_status" -> p.id = "status_response"
      [] filt = "f_ndtr" -> p.id = "network_device_trust_response"
      [] filt = "f_never" -> FALSE
      [] OTHER -> FALSE

SyncFilters == {"f_status", "f_ndtr", "f_never"}

-----------------------------------------------------------------------------
(* The field bytes of the commands the controller issues. *)

FORM_NETWORK_CHANNELS_BigEndian == <<3, 255, 248, 0>>
FORM_NETWORK_CHANNELS == <<0, 248, 255, 3>>
FormNetworkPayload ==
    FORM_NETWORK_CHANNELS \o <<3>> \o <<0, 0>> \o <<0, 0, 0, 0, 0, 0, 0, 0>>
AddEndpointPayload ==
    <<1>> \o <<4, 1>> \o <<7, 0>> \o <<1>> \o <<3>>
    \o <<0, 0, 3, 0, 25, 0, 3, 0, 0, 3, 0, 1, 2>>
AddAttributePayload == <<1>> \o <<1, 2>> \o <<0>> \o <<1>> \o <<17, 0, 41, 3>>
DeviceTypePayload == <<0, 0>>
SerialAckPayload == <<1>>
PermitJoinPayload == <<60>>

(* RapidHADevice.startup_handler(name, packet) *)
startup_handler(s, p) ==
    IF s.config_state = STATE_WAITING_STARTUP_SYNC /\ p.id = "startup_sync"
    THEN [Send(s, "reset", <<>>) EXCEPT !.config_state = STATE_SERIAL_ACK]
    ELSE IF s.config_state = STATE_SERIAL_ACK /\ p.id = "startup_sync"
    THEN [Send(s, "serial_ack", SerialAckPayload)
              EXCEPT !.config_state = STATE_HOST_STARTUP_READY]
    ELSE IF s.config_state = STATE_HOST_STARTUP_READY /\ p.frame_id = s.frame_seq
    THEN [Send(s, "host_startup_ready", <<>>)
              EXCEPT !.config_state = STATE_HOST_STARTUP_READY_ACK]
    ELSE IF s.config_state = STATE_HOST_STARTUP_READY_ACK /\ p.id = "startup_sync"
    THEN IF p.running_state = RUNNING_STATE_STARTING
         THEN IF p.config_state = CONFIGURATION_STATE_CONFIGURED
              THEN Send([s EXCEPT !.config_state = STATE_STARTUP_SYNC_COMPLETE],
                        "startup_sync", <<>>)
              ELSE IF p.config_state = CONFIGURATION_STATE_NEEDS_ENDPOINT_CONFIG
              THEN Send([s EXCEPT !.config_state = STATE_CLEAR_ENDPOINTS],
                        "clear_endpoint_config", <<>>)
              ELSE [Send(s, "device_type_write", DeviceTypePayload)
                        EXCEPT !.config_state = STATE_CONFIGURE_DEVICE_TYPE]
         ELSE Send([s EXCEPT !.config_state = STATE_STARTUP_SYNC_COMPLETE],
                   "startup_sync", <<>>)
    ELSE IF s.config_state = STATE_CONFIGURE_DEVICE_TYPE /\ p.frame_id = s.frame_seq
    THEN Send([s EXCEPT !.config_state = STATE_CLEAR_ENDPOINTS],
              "clear_endpoint_config", <<>>)
    ELSE IF s.config_state = STATE_CLEAR_ENDPOINTS /\ p.frame_id = s.frame_seq
    THEN [Send(s, "add_endpoint", AddEndpointPayload)
              EXCEPT !.config_state = STATE_ADD_ATTRIBUTES]
    ELSE IF s.config_state = STATE_ADD_ATTRIBUTES /\ p.frame_id = s.frame_seq
    THEN [Send(s, "add_attribute_to_cluster", AddAttributePayload)
              EXCEPT !.config_state = STATE_ADD_ATTRIBUTES_ACK]
    ELSE IF s.config_state = STATE_ADD_ATTRIBUTES_ACK /\ p.id = "status_response"
    THEN [Send(s, "startup_sync", <<>>)
              EXCEPT !.config_state = STATE_STARTUP_SYNC_COMPLETE]
    ELSE IF s.config_state = STATE_STARTUP_SYNC_COMPLETE
            /\ p.id = "network_status_response"
    THEN IF p.network_status = NETWORK_STATUS_DOWN
         THEN [Send([s EXCEPT !.network_state = p], "form_network", FormNetworkPayload)
                   EXCEPT !.config_state = STATE_NETWORK_DOWN]
         ELSE IF p.network_status = NETWORK_STATUS_UP
         THEN [s EXCEPT !.network_state = p, !.config_state = STATE_NETWORK_UP]
         ELSE [s EXCEPT !.network_state = p]
    ELSE IF s.config_state = STATE_NETWORK_DOWN /\ p.id = "network_status_response"
    THEN IF p.network_status = NETWORK_STATUS_UP
         THEN unregister_dispatch(
                  [s EXCEPT !.network_state = p, !.config_state = STATE_NETWORK_UP],
                  "startup")
         ELSE [s EXCEPT !.network_state = p]
    ELSE s

(* The closure `complete` of add_device: it unregisters the join handler    *)
(* and calls the caller's callback.  gen identifies the add_device call.    *)
complete(s, gen) ==
    LET u == unregister_dispatch(s, JOIN_NAME)
    IN [u EXCEPT !.join_calls[gen] = @ + 1]

(* The closure `handler` of Synchronous.__getattr__ for handler_id UUIDS[n] *)
handler(s, n, p) ==
    LET u == unregister_dispatch(s, UUIDS[n])
    IN [u EXCEPT !.result = {e \in @ : e.id # UUIDS[n]}
                              \cup {[id |-> UUIDS[n], packet |-> p]}]

(* The call handler['callback'](handler['name'], packet) of Dispatch.dispatch *)
Callback(s, h, p) ==
    CASE h.cb = "startup" -> startup_handler(s, p)
      [] h.cb = "join" -> complete(s, h.arg)
      [] h.cb = "sync" -> handler(s, h.arg, p)
      [] OTHER -> s

-----------------------------------------------------------------------------
(* The bring-up scenario as an observer of the dispatched packets.          *)
(* scenario = k: the packets dispatched since construction are exactly the  *)
(* first k events of                                                        *)
(*   startup_sync(starting, needs_endpoint_config), startup_sync, echo,     *)
(*   startup_sync(starting, needs_endpoint_config), echo, echo,             *)
(*   status_response, network_status_response(down),                        *)
(*   network_status_response(up)                                            *)
(* where echo is any packet whose frame_id is the current frame_seq, and    *)
(* the caller issued no command in between; -1 once they are not.           *)

IsStartingNeedsEndpoint(p) ==
    /\ p.id = "startup_sync"
    /\ p.running_state = RUNNING_STATE_STARTING
    /\ p.config_state = CONFIGURATION_STATE_NEEDS_ENDPOINT_CONFIG

ScenarioExpects(k, p) ==
    CASE k \in {0, 1, 3} -> IsStartingNeedsEndpoint(p)
      [] k \in {2, 4, 5} -> p.frame_id = frame_seq
      [] k = 6 -> p.id = "status_response"
      [] k = 7 -> p.id = "network_status_response" /\ p.network_status = NETWORK_STATUS_DOWN
      [] k = 8 -> p.id = "network_status_response" /\ p.network_status = NETWORK_STATUS_UP
      [] OTHER -> FALSE

ScenarioNext(k, p) ==
    IF k >= 0 /\ ScenarioExpects(k, p) THEN k + 1 ELSE -1

(* The scenario read literally: two startup_sync packets, an echo at each   *)
(* state that waits for an echo, then status_response, then                 *)
(* network_status_response(down).  Positions: 0, 1 the startup_syncs, 2 the *)
(* echoes and the status_response, 3 the status-down packet, 4 finished.    *)
EchoWaiting ==
    {STATE_HOST_STARTUP_READY, STATE_CONFIGURE_DEVICE_TYPE, STATE_CLEAR_ENDPOINTS,
     STATE_ADD_ATTRIBUTES}

ScenarioLitNext(k, p) ==
    CASE k \in {0, 1} -> IF IsStartingNeedsEndpoint(p) THEN k + 1 ELSE -1
      [] k = 2 -> IF config_state \in EchoWaiting
                  THEN (IF p.frame_id = frame_seq THEN 2 ELSE -1)
                  ELSE (IF p.id = "status_response" THEN 3 ELSE -1)
      [] k = 3 -> IF p.id = "network_status_response"
                     /\ p.network_status = NETWORK_STATUS_DOWN THEN 4 ELSE -1
      [] OTHER -> -1

-----------------------------------------------------------------------------
(* Frames on the serial line and the response decoder.  A byte is a number  *)
(* in 0..255, a byte string a sequence of bytes.                            *)

START_BYTE_AsLastByte == SeqModulus - 1     \* 0xFF taken for the start byte
START_BYTE == 241       \* APIFrame.START_BYTE, 0xF1
REST == -1              \* a field whose 'len' is None: the rest of the data

RECURSIVE SumBytes(_)
SumBytes(s) ==
    IF s = <<>> THEN 0
    ELSE IF Len(s) = 1 THEN s[1]
    ELSE LET h == Len(s) \div 2
         IN  SumBytes(SubSeq(s, 1, h)) + SumBytes(SubSeq(s, h + 1, Len(s)))

(* struct.pack("<H", total): two bytes, the low one first.  A total that   *)
(* does not fit sixteen bits makes struct.pack raise struct.error.          *)
PackH(total) == <<total % 256, (total \div 256) % 256>>

(* APIFrame.verify, with the outcome "struct.error" for the exception *)
verify_AcceptAll(data, chksum) == "true"

verify(data, chksum) ==
    IF SumBytes(data) >= 65536 THEN "struct.error"
    ELSE IF chksum = PackH(SumBytes(data)) THEN "true" ELSE "false"

(* APIFrame.remaining_bytes: the fifth byte of the raw data, once read, is  *)
(* the length of the payload.                                               *)
remaining_bytes(raw) ==
    5 + (IF Len(raw) >= 5 THEN raw[5] ELSE 0) + 2 - Len(raw)

(* APIFrame.parse: data is raw_data[1:5 + data_len], the checksum the last  *)
(* two bytes; the outcome is "ok", "ValueError" or "struct.error".          *)
parse(raw) ==
    LET data == SubSeq(raw, 2, 5 + raw[5])
        chksum == SubSeq(raw, Len(raw) - 1, Len(raw))
        v == verify(data, chksum)
    IN [data |-> data,
        outcome |-> CASE v = "true" -> "ok"
                      [] v = "false" -> "ValueError"
                      [] OTHER -> v]

Field(n, l) == [name |-> n, len |-> l]

(* The id bytes of RapidHA.api_responses *)
ResponseIds ==
    {<<1, 9>>, <<1, 16>>, <<3, 18>>, <<5, 3>>, <<5, 49>>, <<5, 51>>,
     <<85, 3>>, <<85, 5>>, <<85, 7>>, <<85, 9>>, <<85, 33>>, <<85, 50>>,
     <<85, 128>>, <<85, 224>>, <<176, 1>>, <<176, 3>>, <<176, 6>>}

(* RapidHA.api_responses: the name and the structure of each response *)
api_responses(id) ==
    CASE id = <<85, 33>> ->
            [name |-> "startup_sync",
             structure |-> <<Field("running_state", 1), Field("config_state", 1)>>]
      [] id = <<85, 3>> ->
            [name |-> "module_info_response",
             structure |-> <<Field("major_firmware_version", 1),
                            Field("minor_firmware_version", 1),
                            Field("build_firmware_version", 1),
                            Field("application_information", 2), Field("eui64", 8),
                            Field("hardware_type", 1), Field("bootloader_type", 1)>>]
      [] id = <<85, 5>> ->
            [name |-> "bootloader_version_response",
             structure |-> <<Field("ember_version", 4), Field("mmb_version", 4)>>]
      [] id = <<85, 7>> ->
            [name |-> "application_version_count_response",
             structure |-> <<Field("version_count", 1)>>]
      [] id = <<85, 9>> ->
            [name |-> "",
             structure |-> <<Field("version_count", 1), Field("version_type", 1),
                            Field("version", REST)>>]
      [] id = <<85, 50>> ->
            [name |-> "serial_ack_response",
             structure |-> <<Field("serial_config", 1)>>]
      [] id = <<85, 128>> ->
            [name |-> "status_response",
             structure |-> <<Field("status", 1)>>]
      [] id = <<85, 224>> ->
            [name |-> "error",
             structure |-> <<Field("error", 1), Field("sub_error", 1)>>]
      [] id = <<3, 18>> ->
            [name |-> "endpoint_list_response",
             structure |-> <<Field("endpoints", 1), Field("data", REST)>>]
      [] id = <<1, 9>> ->
            [name |-> "network_status_response",
             structure |-> <<Field("network_status", 1), Field("zigbee_device", 1),
                            Field("channel", 1), Field("node", 2), Field("short_pan",
                            2), Field("extended_pan", 8), Field("permit_join_time", 1)>>]
      [] id = <<1, 16>> ->
            [name |-> "network_device_trust_response",
             structure |-> <<Field("node", 2), Field("eui64", 8), Field("event", 1),
                            Field("parent", 2)>>]
      [] id = <<5, 3>> ->
            [name |-> "send_zcl_multicast_response",
             structure |-> <<Field("status", 1), Field("transaction_seq", 1)>>]
      [] id = <<5, 49>> ->
            [name |-> "read_zcl_attribute_response",
             structure |-> <<Field("node", 2), Field("endpoint", 1), Field("cluster", 2),
                            Field("is_server", 1), Field("attribute", 2),
                            Field("zcl_status", 1), Field("attrib_type", 1),
                            Field("attrib_value", REST)>>]
      [] id = <<5, 51>> ->
            [name |-> "write_zcl_attribute_response",
             structure |-> <<Field("node", 2), Field("endpoint", 1), Field("cluster", 2),
                            Field("is_server", 1), Field("status", 1),
                            Field("attrib_count", 1), Field("attrib_records", REST)>>]
      [] id = <<176, 1>> ->
            [name |-> "ota_query_next_image_request",
             structure |-> <<Field("node", 2), Field("eui64", 8), Field("endpoint", 1),
                            Field("field_control", 1), Field("manufacturer_code", 2),
                            Field("image_type", 2), Field("file_version", 4),
                            Field("hardware_version", REST)>>]
      [] id = <<176, 3>> ->
            [name |-> "ota_image_block_request",
             structure |-> <<Field("node", 2), Field("eui64", 8), Field("endpoint", 1),
                            Field("field_control", 1), Field("manufacturer_code", 2),
                            Field("image_type", 2), Field("file_version", 4),
                            Field("file_offset", 4), Field("max_data_size", 1)>>]
      [] id = <<176, 6>> ->
            [name |-> "ota_upgrade_end_request",
             structure |-> <<Field("node", 2), Field("eui64", 8), Field("endpoint", 1),
                            Field("status", 1), Field("manufacturer_code", 2),
                            Field("image_type", 2), Field("file_version", 4)>>]

(* A table of commands without entries *)
api_command_ids_None == {}

(* The default id bytes of the commands of RapidHA.api_commands *)
api_command_ids ==
    {<<1, 0>>, <<1, 1>>, <<1, 3>>, <<1, 4>>, <<1, 5>>, <<1, 8>>,
     <<1, 17>>, <<1, 18>>, <<3, 0>>, <<3, 16>>, <<3, 17>>, <<3, 32>>,
     <<3, 48>>, <<5, 0>>, <<5, 1>>, <<5, 2>>, <<5, 16>>, <<5, 48>>,
     <<5, 50>>, <<85, 0>>, <<85, 3>>, <<85, 4>>, <<85, 6>>, <<85, 8>>,
     <<85, 16>>, <<85, 32>>, <<85, 34>>, <<85, 48>>, <<85, 49>>,
     <<176, 0>>, <<176, 2>>, <<176, 5>>, <<176, 7>>}

(* RapidHA._split_response, the loop over the fields of the structure.     *)
(* index counts the bytes of data already consumed; the outcome is "ok" or  *)
(* the exception raised.                                                    *)
RECURSIVE SplitFields(_, _, _, _)
SplitFields(data, fields, index, info) ==
    IF fields = <<>> THEN [outcome |-> "ok", index |-> index, info |-> info]
    ELSE LET field == Head(fields)
         IN IF field.len = REST
            THEN LET field_data == SubSeq(data, index + 1, Len(data))
                 IN [outcome |-> "ok",
                     index |-> index + Len(field_data),
                     info |-> IF field_data # <<>>
                              THEN (field.name :> field_data) @@ info
                              ELSE info]
            ELSE IF index + field.len > Len(data)
                 THEN [outcome |-> "ValueError", index |-> index, info |-> info]
                 ELSE SplitFields(data, Tail(fields), index + field.len,
                                  (field.name :> SubSeq(data, index + 1, index + field.len))
                                      @@ info)

(* RapidHA._split_response: the response is looked up by the first two     *)
(* bytes, its fields are cut out of the data from the fifth byte on, and    *)
(* more than two bytes left over are an error.                              *)
(* _split_response taking frame_id from the length byte *)
_split_response_FrameIdFromLen(data) ==
    LET packet_id == SubSeq(data, 1, 2)
    IN IF packet_id \notin ResponseIds
       THEN [outcome |-> IF packet_id \in api_command_ids
                         THEN "CommandFrameException" ELSE "KeyError",
             info |-> <<>>]
       ELSE LET packet == api_responses(packet_id)
                r == SplitFields(data, packet.structure, 4,
                                 ("id" :> packet.name) @@ ("frame_id" :> data[4]))
            IN IF r.outcome # "ok" THEN [outcome |-> r.outcome, info |-> <<>>]
               ELSE IF r.index + 2 < Len(data)
                    THEN [outcome |-> "ValueError", info |-> <<>>]
                    ELSE [outcome |-> "ok", info |-> r.info]

_split_response(data) ==
    LET packet_id == SubSeq(data, 1, 2)
    IN IF packet_id \notin ResponseIds
       THEN [outcome |-> IF packet_id \in api_command_ids
                         THEN "CommandFrameException" ELSE "KeyError",
             info |-> <<>>]
       ELSE LET packet == api_responses(packet_id)
                r == SplitFields(data, packet.structure, 4,
                                 ("id" :> packet.name) @@ ("frame_id" :> data[3]))
            IN IF r.outcome # "ok" THEN [outcome |-> r.outcome, info |-> <<>>]
               ELSE IF r.index + 2 < Len(data)
                    THEN [outcome |-> "ValueError", info |-> <<>>]
                    ELSE [outcome |-> "ok", info |-> r.info]

(* The value of a one-byte key of the dictionary, -1 when it is absent *)
ByteOf(info, key) == IF key \in DOMAIN info THEN info[key][1] ELSE -1

(* The dictionary reduced to the keys the handlers and filters read *)
ToPkt(info) ==
    Pkt(info["id"], info["frame_id"], ByteOf(info, "running_state"),
        ByteOf(info, "config_state"), ByteOf(info, "network_status"),
        ByteOf(info, "event"))

-----------------------------------------------------------------------------
(* The reader thread: XBeeBase.run calls self._callback(packet), which is   *)
(* Dispatch.dispatch: a for loop over self.handlers.                        *)

callerVars == <<call_pc, sync_id, sync_n, sync_out, ad_gen, timers, user_sends, rc_n>>
busVars == <<handlers, names, config_state, network_state, frame_seq, sent, result,
             join_calls, next_rid>>
passVars == <<rd_pc, rd_pkt, rd_idx, snap, invoked, npass, old_list, sync_seen>>
scenarioVars == <<scenario, scenario_lit>>
readerVars == <<thread_continue, serial_open, rt_pc, raw_data, wire, feed, script,
                delivered, dropped>>
codecVars == <<cx_in, cx_out, enc, sync_names>>

PreviousSeq == (frame_seq + SeqModulus - 1) % SeqModulus

(* Every response kind the handlers distinguish, echoing the sequence       *)
(* number of the last command or of the one before.                         *)
AllPackets == PacketsWith(frame_seq) \cup PacketsWith(PreviousSeq)

(* One packet of each kind the bus, the join workflow and the synchronous   *)
(* adapter distinguish.                                                     *)
BusPackets ==
    {p \in PacketsWith(frame_seq) :
        /\ p.id = "startup_sync" =>
              /\ p.running_state = RUNNING_STATE_STARTING
              /\ p.config_state = CONFIGURATION_STATE_NEEDS_ENDPOINT_CONFIG
        /\ p.id = "network_status_response" => p.network_status = NETWORK_STATUS_UP}

(* self._callback(packet): Dispatch.dispatch is entered and the loop's     *)
(* iterator created.                                                        *)
BeginPass(p, counted) ==
    /\ rd_pkt' = p
    /\ scenario' = ScenarioNext(scenario, p)
    /\ scenario_lit' = ScenarioLitNext(scenario_lit, p)
    /\ rd_pc' = "dispatch"
    /\ rd_idx' = 0
    /\ snap' = handlers
    /\ invoked' = <<>>
    /\ npass' = IF counted THEN npass + 1 ELSE npass
    /\ old_list' = "live"
    /\ sync_seen' = [n \in DOMAIN sync_seen |->
                        IF /\ sync_seen[n] = NoPacket
                           /\ \E h \in Range(handlers) :
                                 h.cb = "sync" /\ h.arg = n /\ Matches(h.filt, p)
                        THEN p ELSE sync_seen[n]]

(* A decoded packet reaches dispatch. *)
DispatchBegin(counted, packets) ==
    /\ rd_pc = "idle"
    /\ counted => npass < MaxPass
    /\ \E p \in packets : BeginPass(p, counted)
    /\ UNCHANGED <<busVars, callerVars>>
    /\ UNCHANGED readerVars
    /\ UNCHANGED codecVars

(* The list object the loop of the pass iterates: dispatch.handlers, or    *)
(* the list that attribute held when the loop began, if reconfigure has     *)
(* bound the attribute to a new list since.                                 *)
PassList == IF old_list = "live" THEN handlers ELSE old_list

(* One turn of the for loop: the iterator yields the element at its         *)
(* position in the list as it is now, and the callback runs when the filter *)
(* accepts the packet.                                                      *)
DispatchStep ==
    /\ rd_pc = "dispatch"
    /\ rd_idx < Len(PassList)
    /\ LET h == PassList[rd_idx + 1]
       IN IF Matches(h.filt, rd_pkt)
          THEN /\ Commit(Callback(Env, h, rd_pkt))
               /\ invoked' = Append(invoked, h)
          ELSE /\ UNCHANGED busVars
               /\ invoked' = invoked
    /\ rd_idx' = rd_idx + 1
    /\ UNCHANGED <<rd_pc, rd_pkt, snap, npass, old_list, sync_seen, callerVars,
                   scenarioVars>>
    /\ UNCHANGED readerVars
    /\ UNCHANGED codecVars

(* The iterator is exhausted: dispatch returns. *)
DispatchEnd ==
    /\ rd_pc = "dispatch"
    /\ rd_idx >= Len(PassList)
    /\ rd_pc' = "done"
    /\ UNCHANGED <<rd_pkt, rd_idx, snap, invoked, npass, old_list, sync_seen, busVars,
                   callerVars, scenarioVars>>
    /\ UNCHANGED readerVars
    /\ UNCHANGED codecVars

(* Back in XBeeBase.run: the loop waits for the next frame. *)
DispatchReturn ==
    /\ rd_pc = "done"
    /\ rd_pc' = "idle"
    /\ rd_pkt' = NoPacket
    /\ rd_idx' = 0
    /\ snap' = <<>>
    /\ invoked' = <<>>
    /\ old_list' = "live"
    /\ UNCHANGED <<npass, sync_seen, busVars, callerVars, scenarioVars>>
    /\ UNCHANGED readerVars
    /\ UNCHANGED codecVars

Registered(name) == \E i \in 1..Len(handlers) : handlers[i].name = name

-----------------------------------------------------------------------------
(* Construction: RapidHADevice.__init__ creates the Dispatch object, sets   *)
(* frame_seq to 0 and calls setup_configuration, which registers the        *)
(* 'startup' handler.                                                       *)

setup_configuration(s) ==
    Register([s EXCEPT !.config_state = STATE_WAITING_STARTUP_SYNC],
             "startup", "startup", "all", 0)

Constructed ==
    setup_configuration(
        [handlers |-> <<>>, names |-> {}, config_state |-> 0,
         network_state |-> NoPacket, frame_seq |-> 0, sent |-> <<>>,
         result |-> {}, join_calls |-> [g \in 1..(MaxAddDevice + 1) |-> 0],
         next_rid |-> 1])

InitBusAt(seq) ==
    /\ handlers = Constructed.handlers
    /\ names = Constructed.names
    /\ config_state = Constructed.config_state
    /\ network_state = Constructed.network_state
    /\ frame_seq = seq
    /\ sent = Constructed.sent
    /\ result = Constructed.result
    /\ join_calls = Constructed.join_calls
    /\ next_rid = Constructed.next_rid
    /\ rd_pc = "idle"
    /\ rd_pkt = NoPacket
    /\ rd_idx = 0
    /\ snap = <<>>
    /\ invoked = <<>>
    /\ npass = 0
    /\ old_list = "live"
    /\ sync_seen = [n \in 1..(MaxSync + 1) |-> NoPacket]
    /\ call_pc = "idle"
    /\ sync_id = 0
    /\ sync_n = 0
    /\ sync_out = [n \in 1..(MaxSync + 1) |-> "none"]
    /\ ad_gen = 0
    /\ timers = [g \in 1..(MaxAddDevice + 1) |-> "none"]
    /\ user_sends = 0
    /\ rc_n = 0
    /\ scenario = 0
    /\ scenario_lit = 0

InitBus == InitBusAt(Constructed.frame_seq)

(* The reader thread is running and XBeeBase.run is handing decoded packets *)
(* to self._callback; the frames they come from are left out.               *)
ReaderAbstract ==
    /\ thread_continue = TRUE
    /\ serial_open = TRUE
    /\ rt_pc = "callback"
    /\ raw_data = <<>>
    /\ wire = <<>>
    /\ feed = <<>>
    /\ script = <<>>
    /\ delivered = <<>>
    /\ dropped = <<>>

(* The contexts that call command methods: the reader thread, whose startup *)
(* handler sends the handshake commands, and the thread of the caller.      *)
Contexts == {"reader", "caller"}

(* No context is inside _build_command. *)
EncIdle == [c \in Contexts |-> [pc |-> "idle", seq |-> 0]]

CodecIdle ==
    /\ cx_in = <<>>
    /\ cx_out = <<>>
    /\ enc = EncIdle
    /\ sync_names = <<>>

Init ==
    /\ InitBus
    /\ ReaderAbstract
    /\ CodecIdle

-----------------------------------------------------------------------------
(* The caller context *)

UserNames == {"printall", "user"}

(* dispatch.register(name, callback, lambda packet: True), as the console   *)
(* program does for "printall".                                             *)
RegisterUser(limit) ==
    /\ call_pc = "idle"
    /\ next_rid <= limit
    /\ \E n \in UserNames : Commit(Register(Env, n, "user", "all", 0))
    /\ UNCHANGED <<passVars, callerVars, scenarioVars>>
    /\ UNCHANGED readerVars
    /\ UNCHANGED codecVars

(* A command method called directly, such as network_status(). *)
UserSend ==
    /\ call_pc = "idle"
    /\ user_sends < MaxUserSends
    /\ Commit(Send(Env, "network_status", <<>>))
    /\ user_sends' = user_sends + 1
    /\ scenario' = -1
    /\ scenario_lit' = -1
    /\ UNCHANGED <<passVars, call_pc, sync_id, sync_n, sync_out, ad_gen, timers, rc_n>>
    /\ UNCHANGED readerVars
    /\ UNCHANGED codecVars

(* The bring-up alone: the reader thread dispatching packets to the         *)
(* handshake handler and to user handlers, and a caller issuing commands.   *)
NextBringUp ==
    \/ DispatchBegin(FALSE, AllPackets)
    \/ DispatchStep
    \/ DispatchEnd
    \/ DispatchReturn
    \/ RegisterUser(MaxBringUpHandlers)
    \/ UserSend

SpecBringUp == Init /\ [][NextBringUp]_vars

-----------------------------------------------------------------------------
(* The caller context: unregistering, the join workflow, synchronous calls *)

(* unregister_dispatch(name) called by the program's user *)
UnregisterUser ==
    /\ call_pc = "idle"
    /\ \E n \in UserNames : Commit(unregister_dispatch(Env, n))
    /\ UNCHANGED <<passVars, callerVars, scenarioVars>>
    /\ UNCHANGED readerVars
    /\ UNCHANGED codecVars

(* leave_network_handler(callback) *)
LeaveNetworkHandler ==
    /\ call_pc = "idle"
    /\ next_rid <= MaxHandlers
    /\ ~Registered("leave_network")
    /\ Commit(Register(Env, "leave_network", "user", "leave", 0))
    /\ UNCHANGED <<passVars, callerVars, scenarioVars>>
    /\ UNCHANGED readerVars
    /\ UNCHANGED codecVars

TimerAlive(st) == st \in {"waiting", "firing"}

(* Timer.cancel(): the timer's finished event is set.  A timer still in its *)
(* wait returns without calling its function; one that has already passed   *)
(* its test of the event goes on to call it.                                *)
Cancel(st) == IF st = "waiting" THEN "cancelled" ELSE st

(* add_device, first statement: unregister_dispatch of the join name *)
AddDeviceBegin ==
    /\ call_pc = "idle"
    /\ ad_gen < MaxAddDevice
    /\ next_rid <= MaxHandlers
    /\ Commit(unregister_dispatch(Env, JOIN_NAME))
    /\ ad_gen' = ad_gen + 1
    /\ call_pc' = "ad_timer"
    /\ UNCHANGED <<passVars, sync_id, sync_n, sync_out, timers, user_sends, rc_n, scenarioVars>>
    /\ UNCHANGED readerVars
    /\ UNCHANGED codecVars

(* add_device: the previous timer is cancelled when alive, a new one started *)
AddDeviceTimer ==
    /\ call_pc = "ad_timer"
    /\ timers' = [g \in DOMAIN timers |->
                    IF g = ad_gen THEN "waiting"
                    ELSE IF g = ad_gen - 1 /\ TimerAlive(timers[g]) THEN Cancel(timers[g])
                    ELSE timers[g]]
    /\ call_pc' = "ad_register"
    /\ UNCHANGED <<passVars, busVars, sync_id, sync_n, sync_out, ad_gen, user_sends, rc_n,
                   scenarioVars>>
    /\ UNCHANGED readerVars
    /\ UNCHANGED codecVars

(* add_device: the join handler is registered *)
AddDeviceRegister ==
    /\ call_pc = "ad_register"
    /\ Commit(Register(Env, JOIN_NAME, "join", "join", ad_gen))
    /\ call_pc' = "ad_permit"
    /\ UNCHANGED <<passVars, sync_id, sync_n, sync_out, ad_gen, timers, user_sends, rc_n,
                   scenarioVars>>
    /\ UNCHANGED readerVars
    /\ UNCHANGED codecVars

(* add_device: self.permit_join() *)
AddDevicePermit ==
    /\ call_pc = "ad_permit"
    /\ Commit(Send(Env, "permit_join", PermitJoinPayload))
    /\ call_pc' = "idle"
    /\ scenario' = -1
    /\ scenario_lit' = -1
    /\ UNCHANGED <<passVars, sync_id, sync_n, sync_out, ad_gen, timers, user_sends, rc_n>>
    /\ UNCHANGED readerVars
    /\ UNCHANGED codecVars

(* The timer thread: 60 seconds have passed and the finished event is found *)
(* not set.                                                                 *)
TimerExpire ==
    /\ \E g \in DOMAIN timers :
          /\ timers[g] = "waiting"
          /\ timers' = [timers EXCEPT ![g] = "firing"]
    /\ UNCHANGED <<passVars, busVars, call_pc, sync_id, sync_n, sync_out, ad_gen,
                   user_sends, rc_n, scenarioVars>>
    /\ UNCHANGED readerVars
    /\ UNCHANGED codecVars

(* The timer thread calls its function: unregister_dispatch of the join name *)
TimerFire ==
    /\ \E g \in DOMAIN timers :
          /\ timers[g] = "firing"
          /\ timers' = [timers EXCEPT ![g] = "done"]
    /\ Commit(unregister_dispatch(Env, JOIN_NAME))
    /\ UNCHANGED <<passVars, call_pc, sync_id, sync_n, sync_out, ad_gen, user_sends, rc_n,
                   scenarioVars>>
    /\ UNCHANGED readerVars
    /\ UNCHANGED codecVars

(* sync.<method>(..., filter=f): __getattr__ draws a handler_id, and         *)
(* run_synchronous registers the one-shot handler.                          *)
SyncBegin ==
    /\ call_pc = "idle"
    /\ sync_n < MaxSync
    /\ next_rid <= MaxHandlers
    /\ sync_n' = sync_n + 1
    /\ sync_id' = sync_n + 1
    /\ \E f \in SyncFilters : Commit(Register(Env, UUIDS[sync_n + 1], "sync", f, sync_n + 1))
    /\ sync_out' = [sync_out EXCEPT ![sync_n + 1] = "pending"]
    /\ call_pc' = "sy_call"
    /\ UNCHANGED <<passVars, ad_gen, timers, user_sends, rc_n, scenarioVars>>
    /\ UNCHANGED readerVars
    /\ sync_names' = Append(sync_names, UUIDS[sync_n + 1])
    /\ UNCHANGED <<cx_in, cx_out, enc>>

(* run_synchronous: the call of the wrapped method, the asynchronous call *)
SyncInvoke ==
    /\ call_pc = "sy_call"
    /\ Commit(Send(Env, "network_status", <<>>))
    /\ call_pc' = "sy_poll"
    /\ scenario' = -1
    /\ scenario_lit' = -1
    /\ UNCHANGED <<passVars, sync_id, sync_n, sync_out, ad_gen, timers, user_sends, rc_n>>
    /\ UNCHANGED readerVars
    /\ UNCHANGED codecVars

(* run_synchronous: the loop body, with timer < self.timeout *)
SyncPoll ==
    /\ call_pc = "sy_poll"
    /\ IF \E e \in result : e.id = UUIDS[sync_id]
       THEN /\ result' = {e \in result : e.id # UUIDS[sync_id]}
            /\ sync_out' = [sync_out EXCEPT ![sync_id] = "returned"]
            /\ call_pc' = "idle"
       ELSE /\ call_pc' = "sy_sleep"
            /\ UNCHANGED <<result, sync_out>>
    /\ UNCHANGED <<passVars, handlers, names, config_state, network_state, frame_seq,
                   sent, join_calls, next_rid, sync_id, sync_n, ad_gen, timers,
                   user_sends, rc_n, scenarioVars>>
    /\ UNCHANGED readerVars
    /\ UNCHANGED codecVars

(* run_synchronous: the sleep is over and timer is still below the timeout *)
SyncWake ==
    /\ call_pc = "sy_sleep"
    /\ call_pc' = "sy_poll"
    /\ UNCHANGED <<passVars, busVars, sync_id, sync_n, sync_out, ad_gen, timers,
                   user_sends, rc_n, scenarioVars>>
    /\ UNCHANGED readerVars
    /\ UNCHANGED codecVars

(* run_synchronous: the sleep is over, timer has reached the timeout: the   *)
(* loop ends and TimeoutError is raised.                                    *)
SyncTimeout ==
    /\ call_pc = "sy_sleep"
    /\ sync_out' = [sync_out EXCEPT ![sync_id] = "timeout"]
    /\ call_pc' = "idle"
    /\ UNCHANGED <<passVars, busVars, sync_id, sync_n, ad_gen, timers, user_sends, rc_n,
                   scenarioVars>>
    /\ UNCHANGED readerVars
    /\ UNCHANGED codecVars

(* The dispatch bus in use: the reader thread dispatching while the caller  *)
(* context registers and unregisters handlers.                              *)
Next ==
    \/ DispatchBegin(TRUE, BusPackets)
    \/ DispatchStep
    \/ DispatchEnd
    \/ DispatchReturn
    \/ RegisterUser(MaxHandlers)
    \/ UnregisterUser
    \/ LeaveNetworkHandler

Spec == Init /\ [][Next]_vars

(* The join workflow: the reader thread, add_device and its timers, and a   *)
(* user handler.                                                            *)
NextJoin ==
    \/ DispatchBegin(TRUE, BusPackets)
    \/ DispatchStep
    \/ DispatchEnd
    \/ DispatchReturn
    \/ RegisterUser(MaxHandlers)
    \/ AddDeviceBegin
    \/ AddDeviceTimer
    \/ AddDeviceRegister
    \/ AddDevicePermit
    \/ TimerExpire
    \/ TimerFire

SpecJoin == Init /\ [][NextJoin]_vars

(* The synchronous adapter: the reader thread and a caller making           *)
(* synchronous calls.                                                       *)
NextSync ==
    \/ DispatchBegin(TRUE, BusPackets)
    \/ DispatchStep
    \/ DispatchEnd
    \/ DispatchReturn
    \/ SyncBegin
    \/ SyncInvoke
    \/ SyncPoll
    \/ SyncWake
    \/ SyncTimeout

SpecSync == Init /\ [][NextSync]_vars

-----------------------------------------------------------------------------
(* The reader thread at the level of bytes: start_thread, run, the frame    *)
(* assembly of _wait_for_frame, the decoding of wait_read_frame and halt.   *)

MaxFrames == 2      \* frames the module transmits

(* A frame as APIFrame.parse expects it: the start byte, two id bytes, the  *)
(* sequence byte, the payload length, the payload, and the sum of the bytes *)
(* after the start byte as two bytes, low first.                            *)
Frame(id, seq, payload) ==
    LET data == id \o <<seq, Len(payload)>> \o payload
    IN <<START_BYTE>> \o data \o PackH(SumBytes(data))

GoodKinds == {"status", "sync"}
BadKinds == {"bad_checksum", "unrecognized", "echo", "truncated", "overlong"}
FrameKinds == GoodKinds \cup BadKinds \cup {"noise"}

(* What the module transmits for each kind: two well-formed responses, a    *)
(* status_response with a corrupted checksum byte, a frame with an id of no *)
(* response and no command, a frame with the id of the reset command, a     *)
(* status_response without its status byte, one with three bytes too many,  *)
(* and a byte that is not a start byte.                                     *)
FrameBytes(kind) ==
    CASE kind = "status" -> Frame(<<85, 128>>, 0, <<0>>)
      [] kind = "sync" ->
            Frame(<<85, 33>>, 0,
                  <<RUNNING_STATE_STARTING, CONFIGURATION_STATE_NEEDS_ENDPOINT_CONFIG>>)
      [] kind = "bad_checksum" ->
            LET f == Frame(<<85, 128>>, 0, <<0>>)
            IN [f EXCEPT ![Len(f)] = (f[Len(f)] + 1) % 256]
      [] kind = "unrecognized" -> Frame(<<119, 119>>, 0, <<0>>)
      [] kind = "echo" -> Frame(<<85, 0>>, 0, <<>>)
      [] kind = "truncated" -> Frame(<<85, 128>>, 0, <<>>)
      [] kind = "overlong" -> Frame(<<85, 128>>, 0, <<0, 0, 0, 0>>)
      [] OTHER -> <<0>>

(* The packet a well-formed frame stands for *)
ExpectedPacket(kind) ==
    IF kind = "status" THEN Pkt("status_response", 0, -1, -1, -1, -1)
    ELSE Pkt("startup_sync", 0, RUNNING_STATE_STARTING,
             CONFIGURATION_STATE_NEEDS_ENDPOINT_CONFIG, -1, -1)

Scripts == UNION {[1..n -> FrameKinds] : n \in 0..MaxFrames}

RECURSIVE ScriptBytes(_)
ScriptBytes(s) == IF s = <<>> THEN <<>> ELSE FrameBytes(Head(s)) \o ScriptBytes(Tail(s))

InitReader ==
    /\ InitBus
    /\ thread_continue = FALSE
    /\ serial_open = TRUE
    /\ rt_pc = "unstarted"
    /\ raw_data = <<>>
    /\ wire = <<>>
    /\ script \in Scripts
    /\ feed = ScriptBytes(script)
    /\ delivered = <<>>
    /\ dropped = <<>>
    /\ CodecIdle

busAndCaller == <<busVars, callerVars, passVars, scenarioVars>>

(* The module transmits its next byte. *)
Arrive ==
    /\ serial_open
    /\ feed # <<>>
    /\ wire' = Append(wire, Head(feed))
    /\ feed' = Tail(feed)
    /\ UNCHANGED <<busAndCaller, thread_continue, serial_open, rt_pc, raw_data, script,
                   delivered, dropped>>
    /\ UNCHANGED codecVars

(* start_thread: the flag is set and the thread created. *)
start_thread ==
    /\ rt_pc = "unstarted"
    /\ thread_continue' = TRUE
    /\ rt_pc' = "run"
    /\ UNCHANGED <<busAndCaller, serial_open, raw_data, wire, feed, script, delivered,
                   dropped>>
    /\ UNCHANGED codecVars

(* RapidHADevice.run, in the new thread: the flag is set again and the loop *)
(* of XBeeBase.run entered, which calls wait_read_frame.                    *)
run ==
    /\ rt_pc = "run"
    /\ thread_continue' = TRUE
    /\ rt_pc' = "check"
    /\ raw_data' = <<>>
    /\ UNCHANGED <<busAndCaller, serial_open, wire, feed, script, delivered, dropped>>
    /\ UNCHANGED codecVars

(* An exception leaves _wait_for_frame or _split_response: the loop of      *)
(* XBeeBase.run catches it, hands it to self._error_callback, which logs    *)
(* it, and calls wait_read_frame again, which begins with an empty frame.   *)
RunCatches ==
    /\ rt_pc' = "check"
    /\ raw_data' = <<>>

(* _wait_for_frame, top of the loop: the test of the stop flag.             *)
(* ThreadQuitException ends the loop of XBeeBase.run and so the thread.     *)
WaitCheckFlag ==
    /\ rt_pc = "check"
    /\ rt_pc' = IF ~thread_continue THEN "exited" ELSE "poll"
    /\ UNCHANGED <<busAndCaller, thread_continue, serial_open, raw_data, wire, feed,
                   script, delivered, dropped>>
    /\ UNCHANGED codecVars

(* _wait_for_frame: inWaiting() and the read of one byte.  On a closed port *)
(* the call raises; with nothing waiting the thread sleeps 10 ms and goes   *)
(* back to the top; a byte other than the start byte is skipped.            *)
WaitPoll ==
    /\ rt_pc = "poll"
    /\ IF ~serial_open THEN RunCatches /\ wire' = wire
       ELSE IF wire = <<>> THEN rt_pc' = "check" /\ UNCHANGED <<raw_data, wire>>
       ELSE /\ wire' = Tail(wire)
            /\ IF Head(wire) # START_BYTE
               THEN rt_pc' = "check" /\ raw_data' = raw_data
               ELSE rt_pc' = "fill" /\ raw_data' = Append(raw_data, Head(wire))
    /\ UNCHANGED <<busAndCaller, thread_continue, serial_open, feed, script, delivered,
                   dropped>>
    /\ UNCHANGED codecVars

(* _wait_for_frame, the inner loop: self.serial.read() for each byte the    *)
(* frame still lacks.  The read blocks while no byte is waiting; on a       *)
(* closed port the call raises.  The stop flag is not read here.            *)
WaitFill ==
    /\ rt_pc = "fill"
    /\ remaining_bytes(raw_data) > 0
    /\ IF ~serial_open THEN RunCatches /\ wire' = wire
       ELSE /\ wire # <<>>
            /\ raw_data' = Append(raw_data, Head(wire))
            /\ wire' = Tail(wire)
            /\ rt_pc' = rt_pc
    /\ UNCHANGED <<busAndCaller, thread_continue, serial_open, feed, script, delivered,
                   dropped>>
    /\ UNCHANGED codecVars

(* The frame is complete: frame.parse() in _wait_for_frame, then            *)
(* _split_response in wait_read_frame, then self._callback(packet) in       *)
(* XBeeBase.run.  A ValueError of parse is caught in _wait_for_frame, which *)
(* starts a new frame; any other exception is caught by the loop of run.    *)
WaitParse ==
    /\ rt_pc = "fill"
    /\ remaining_bytes(raw_data) <= 0
    /\ LET frame == parse(raw_data)
           response == _split_response(frame.data)
       IN IF frame.outcome # "ok"
          THEN /\ RunCatches
               /\ dropped' = Append(dropped, frame.outcome)
               /\ UNCHANGED <<delivered, passVars, scenarioVars>>
          ELSE IF Len(frame.data) = 0
          THEN /\ RunCatches
               /\ UNCHANGED <<dropped, delivered, passVars, scenarioVars>>
          ELSE IF response.outcome # "ok"
          THEN /\ RunCatches
               /\ dropped' = Append(dropped, response.outcome)
               /\ UNCHANGED <<delivered, passVars, scenarioVars>>
          ELSE /\ rt_pc' = "callback"
               /\ raw_data' = <<>>
               /\ BeginPass(ToPkt(response.info), FALSE)
               /\ delivered' = Append(delivered, ToPkt(response.info))
               /\ dropped' = dropped
    /\ UNCHANGED <<busVars, callerVars, thread_continue, serial_open, wire, feed, script>>
    /\ UNCHANGED codecVars

(* self._callback has returned: the loop of XBeeBase.run calls              *)
(* wait_read_frame again.                                                   *)
wait_read_frame ==
    /\ rt_pc = "callback"
    /\ rd_pc = "idle"
    /\ rt_pc' = "check"
    /\ UNCHANGED <<busAndCaller, thread_continue, serial_open, raw_data, wire, feed,
                   script, delivered, dropped>>
    /\ UNCHANGED codecVars

(* The reader is inside serial.read() with no byte waiting. *)
InBlockingRead ==
    rt_pc = "fill" /\ remaining_bytes(raw_data) > 0 /\ wire = <<>>

(* halt(), from the caller context: the flag is cleared and the port        *)
(* closed.  What closing the port does to a read another thread is blocked  *)
(* in depends on the platform: the read raises or returns, or it stays      *)
(* blocked.                                                                 *)
halt ==
    /\ rt_pc # "unstarted"
    /\ serial_open
    /\ thread_continue' = FALSE
    /\ serial_open' = FALSE
    /\ rt_pc' \in IF InBlockingRead THEN {rt_pc, "blocked"} ELSE {rt_pc}
    /\ UNCHANGED <<busAndCaller, raw_data, wire, feed, script, delivered, dropped>>
    /\ UNCHANGED codecVars

ReaderThread ==
    \/ run
    \/ WaitCheckFlag
    \/ WaitPoll
    \/ WaitFill
    \/ WaitParse
    \/ DispatchStep
    \/ DispatchEnd
    \/ DispatchReturn
    \/ wait_read_frame

NextReader ==
    \/ start_thread
    \/ Arrive
    \/ halt
    \/ ReaderThread

SpecReader == InitReader /\ [][NextReader]_vars

(* The same with the reader thread scheduled fairly: a step of the thread   *)
(* that stays possible is eventually taken.                                 *)
SpecReaderFair == SpecReader /\ WF_vars(ReaderThread)

-----------------------------------------------------------------------------
(* reconfigure, from the caller context, statement by statement *)

MaxReconfigure == 1     \* reconfigure calls

(* self.dispatch.handlers = []: the attribute is bound to a new list; a     *)
(* dispatch pass under way keeps iterating the list it began with.          *)
ReconfigureHandlers ==
    /\ call_pc = "idle"
    /\ rc_n < MaxReconfigure
    /\ next_rid <= MaxHandlers
    /\ handlers' = <<>>
    /\ old_list' = IF rd_pc = "dispatch" /\ old_list = "live" THEN handlers ELSE old_list
    /\ rc_n' = rc_n + 1
    /\ call_pc' = "rc_names"
    /\ UNCHANGED <<names, config_state, network_state, frame_seq, sent, result, join_calls,
                   next_rid, rd_pc, rd_pkt, rd_idx, snap, invoked, npass, sync_seen,
                   sync_id, sync_n,
                   sync_out, ad_gen, timers, user_sends, scenarioVars, readerVars>>
    /\ UNCHANGED codecVars

(* self.dispatch.names = set() *)
ReconfigureNames ==
    /\ call_pc = "rc_names"
    /\ names' = {}
    /\ call_pc' = "rc_restore"
    /\ UNCHANGED <<handlers, config_state, network_state, frame_seq, sent, result,
                   join_calls, next_rid, passVars, sync_id, sync_n, sync_out, ad_gen,
                   timers, user_sends, rc_n, scenarioVars, readerVars>>
    /\ UNCHANGED codecVars

(* self.restore_defaults() *)
ReconfigureRestore ==
    /\ call_pc = "rc_restore"
    /\ Commit(Send(Env, "restore_defaults", <<>>))
    /\ call_pc' = "rc_state"
    /\ scenario' = -1
    /\ scenario_lit' = -1
    /\ UNCHANGED <<passVars, sync_id, sync_n, sync_out, ad_gen, timers, user_sends, rc_n,
                   readerVars>>
    /\ UNCHANGED codecVars

(* setup_configuration, first statement: the state is WaitingStartupSync *)
ReconfigureState ==
    /\ call_pc = "rc_state"
    /\ config_state' = STATE_WAITING_STARTUP_SYNC
    /\ call_pc' = "rc_register"
    /\ UNCHANGED <<handlers, names, network_state, frame_seq, sent, result, join_calls,
                   next_rid, passVars, sync_id, sync_n, sync_out, ad_gen, timers,
                   user_sends, rc_n, scenarioVars, readerVars>>
    /\ UNCHANGED codecVars

(* setup_configuration, second statement: 'startup' is registered, and      *)
(* reconfigure returns.                                                     *)
ReconfigureRegister ==
    /\ call_pc = "rc_register"
    /\ Commit(Register(Env, "startup", "startup", "all", 0))
    /\ call_pc' = "idle"
    /\ UNCHANGED <<passVars, sync_id, sync_n, sync_out, ad_gen, timers, user_sends, rc_n,
                   scenarioVars, readerVars>>
    /\ UNCHANGED codecVars

(* reconfigure in use: the reader thread dispatching, a caller that         *)
(* registers handlers and reconfigures.                                     *)
NextReconfigure ==
    \/ DispatchBegin(TRUE, AllPackets)
    \/ DispatchStep
    \/ DispatchEnd
    \/ DispatchReturn
    \/ RegisterUser(MaxHandlers)
    \/ ReconfigureHandlers
    \/ ReconfigureNames
    \/ ReconfigureRestore
    \/ ReconfigureState
    \/ ReconfigureRegister

SpecReconfigure == Init /\ [][NextReconfigure]_vars

(* The handshake run to its end, packet after packet, with the caller's *)
(* reconfigure() interleaved statement by statement.                    *)
NextBringUpReconfigure ==
    \/ DispatchBegin(FALSE, AllPackets)
    \/ DispatchStep
    \/ DispatchEnd
    \/ DispatchReturn
    \/ ReconfigureHandlers
    \/ ReconfigureNames
    \/ ReconfigureRestore
    \/ ReconfigureState
    \/ ReconfigureRegister

SpecBringUpReconfigure == Init /\ [][NextBringUpReconfigure]_vars

-----------------------------------------------------------------------------
(* The codec functions on their own: the arguments are drawn from a bounded *)
(* set, and one step applies the function.                                  *)

MaxRun == 259       \* longest byte string given to verify: 4 header bytes and 255 of payload

Run(n, b) == [i \in 1..n |-> b]

(* Byte strings from empty to the longest, of small and of large bytes, and *)
(* for each the right checksum and three wrong ones.                        *)
VerifyInputs ==
    UNION {{[data |-> Run(n, b), chksum |-> c] :
                c \in {PackH(n * b), PackH(n * b + 1), <<0, 0>>, <<255, 255>>}} :
           n \in (0..3) \cup ((MaxRun - 3)..MaxRun), b \in {0, 1, 128, 255}}

InitVerify ==
    /\ InitBus
    /\ ReaderAbstract
    /\ cx_in \in {<<x>> : x \in VerifyInputs}
    /\ cx_out = <<>>
    /\ enc = EncIdle
    /\ sync_names = <<>>

(* frame.verify(chksum) *)
ApplyVerify ==
    /\ cx_in # <<>>
    /\ cx_out = <<>>
    /\ cx_out' = <<verify(cx_in[1].data, cx_in[1].chksum)>>
    /\ UNCHANGED <<busAndCaller, readerVars, cx_in, enc, sync_names>>

SpecVerify == InitVerify /\ [][ApplyVerify]_vars

-----------------------------------------------------------------------------
(* Commands: the table api_commands, _build_command and _write.             *)

(* An entry of a command specification.  'len': None is REST, 'default':    *)
(* None is the empty string.                                                *)
CmdField(name, len, default) == [name |-> name, len |-> len, default |-> default]

(* The entries of api_commands the model encodes: commands without fields,  *)
(* with a default for their field, with fixed-length fields that have no    *)
(* default, and with a last field of no fixed length.                       *)
CommandNames ==
    {"reset", "module_info", "serial_ack", "permit_join", "device_type_write",
     "form_network", "add_endpoint"}

api_commands(cmd) ==
    CASE cmd = "reset" -> <<CmdField("id", 2, <<85, 0>>)>>
      [] cmd = "module_info" -> <<CmdField("id", 2, <<85, 3>>)>>
      [] cmd = "serial_ack" ->
            <<CmdField("id", 2, <<85, 48>>), CmdField("on", 1, <<1>>)>>
      [] cmd = "permit_join" ->
            <<CmdField("id", 2, <<1, 3>>), CmdField("duration", 1, <<60>>)>>
      [] cmd = "device_type_write" ->
            <<CmdField("id", 2, <<3, 0>>), CmdField("type", 1, <<>>),
              CmdField("sleepy", 1, <<>>)>>
      [] cmd = "form_network" ->
            <<CmdField("id", 2, <<1, 1>>), CmdField("channel_mask", 4, <<>>),
              CmdField("auto_options", 1, <<>>), CmdField("short_pan", 2, <<>>),
              CmdField("expanded_pan", 8, <<>>)>>
      [] OTHER ->
            <<CmdField("id", 2, <<3, 16>>), CmdField("endpoint", 1, <<>>),
              CmdField("profile_id", 2, <<>>), CmdField("device_id", 2, <<>>),
              CmdField("device_version", 1, <<>>),
              CmdField("server_clusters", 1, <<>>),
              CmdField("cluster_data", REST, <<>>)>>

(* The keyword arguments of a call: a set of name, value pairs, one for     *)
(* each name given.                                                         *)
Arg(name, value) == [name |-> name, value |-> value]
Given(kwargs, name) == \E a \in kwargs : a.name = name
ValueOf(kwargs, name) == (CHOOSE a \in kwargs : a.name = name).value

(* The loop of _build_command over cmd_spec[1:].  A field not given takes   *)
(* its default if it has a length and a default, raises KeyError if it has  *)
(* a length and no default, and is left out if it has no length; data of a  *)
(* length other than the field's raises ValueError.  The first field at     *)
(* fault ends the loop.                                                     *)
RECURSIVE BuildFields_Unchecked(_, _)
BuildFields_Unchecked(fields, kwargs) ==
    IF fields = <<>> THEN [outcome |-> "ok", payload |-> <<>>]
    ELSE LET field == Head(fields)
             data == IF Given(kwargs, field.name) THEN ValueOf(kwargs, field.name)
                     ELSE field.default
         IN  [outcome |-> "ok",
              payload |-> data \o BuildFields_Unchecked(Tail(fields), kwargs).payload]

RECURSIVE BuildFields(_, _)
BuildFields(fields, kwargs) ==
    IF fields = <<>> THEN [outcome |-> "ok", payload |-> <<>>]
    ELSE LET field == Head(fields)
             given == Given(kwargs, field.name)
             data == IF given THEN ValueOf(kwargs, field.name)
                     ELSE IF field.len # REST THEN field.default
                     ELSE <<>>
             rest == BuildFields(Tail(fields), kwargs)
         IN  IF ~given /\ field.len # REST /\ field.default = <<>>
             THEN [outcome |-> "KeyError", payload |-> <<>>]
             ELSE IF field.len # REST /\ field.len # 0 /\ Len(data) # field.len
             THEN [outcome |-> "ValueError", payload |-> <<>>]
             ELSE IF rest.outcome # "ok" THEN rest
             ELSE [outcome |-> "ok", payload |-> data \o rest.payload]

(* _build_command writing the sequence number it found, not the new one *)
_build_command_StaleSeq(cmd, kwargs, seq) ==
    LET built == BuildFields(Tail(api_commands(cmd)), kwargs)
        packet == api_commands(cmd)[1].default \o <<seq, Len(built.payload) % 256>>
                      \o built.payload
    IN  IF cmd \notin CommandNames
        THEN [outcome |-> "KeyError", packet |-> <<>>, frame_seq |-> seq]
        ELSE IF built.outcome # "ok"
        THEN [outcome |-> built.outcome, packet |-> <<>>, frame_seq |-> seq]
        ELSE [outcome |-> "ok", packet |-> packet \o PackH(SumBytes(packet) % 65536),
              frame_seq |-> (seq + 1) % SeqModulus]

(* _build_command with the counter advanced before the fields are checked *)
_build_command_EarlyIncrement(cmd, kwargs, seq) ==
    LET new_seq == (seq + 1) % SeqModulus
        built == BuildFields(Tail(api_commands(cmd)), kwargs)
        packet == api_commands(cmd)[1].default \o <<new_seq, Len(built.payload) % 256>>
                      \o built.payload
    IN  IF cmd \notin CommandNames
        THEN [outcome |-> "KeyError", packet |-> <<>>, frame_seq |-> seq]
        ELSE IF built.outcome # "ok"
        THEN [outcome |-> built.outcome, packet |-> <<>>, frame_seq |-> new_seq]
        ELSE [outcome |-> "ok", packet |-> packet \o PackH(SumBytes(packet) % 65536),
              frame_seq |-> new_seq]

(* _build_command with self.frame_seq = seq: the outcome, the packet        *)
(* returned and self.frame_seq afterwards.  The packet is the id, the new   *)
(* sequence number, the low eight bits of the payload's length, the payload *)
(* and the low sixteen bits of the sum of these bytes, low byte first.      *)
_build_command(cmd, kwargs, seq) ==
    LET cmd_spec == api_commands(cmd)
        command_id == cmd_spec[1].default
        built == BuildFields(Tail(cmd_spec), kwargs)
        new_seq == (seq + 1) % SeqModulus
        packet == command_id \o <<new_seq, Len(built.payload) % 256>> \o built.payload
        checksum == SumBytes(packet)
    IN  IF cmd \notin CommandNames
        THEN [outcome |-> "KeyError", packet |-> <<>>, frame_seq |-> seq]
        ELSE IF built.outcome # "ok"
        THEN [outcome |-> built.outcome, packet |-> <<>>, frame_seq |-> seq]
        ELSE [outcome |-> "ok",
              packet |-> packet \o <<checksum % 256, (checksum \div 256) % 256>>,
              frame_seq |-> new_seq]

(* _write: what serial.write is given, APIFrame(data).output() *)
_write(data) == <<START_BYTE>> \o data

MaxClusterData == 249   \* longest cluster_data given: a payload of 256 bytes

FormNetworkArgs ==
    {Arg("channel_mask", FORM_NETWORK_CHANNELS), Arg("auto_options", <<3>>),
     Arg("short_pan", <<0, 0>>), Arg("expanded_pan", Run(8, 0))}

AddEndpointArgs ==
    {Arg("endpoint", <<1>>), Arg("profile_id", <<4, 1>>), Arg("device_id", <<7, 0>>),
     Arg("device_version", <<1>>), Arg("server_clusters", <<3>>)}

(* The same fields with every byte 0xFF *)
AddEndpointHighArgs == {Arg(a.name, Run(Len(a.value), 255)) : a \in AddEndpointArgs}

(* Calls with every field given, with fields left to their default or left *)
(* out, with values too short and too long, and with a cluster_data from    *)
(* empty to the longest.                                                    *)
EncodeInputs ==
    {[cmd |-> c, kwargs |-> {}] : c \in CommandNames}
    \cup {[cmd |-> "serial_ack", kwargs |-> {Arg("on", v)}] :
             v \in {<<>>, <<0>>, <<1>>, <<0, 1>>}}
    \cup {[cmd |-> "permit_join", kwargs |-> {Arg("duration", v)}] :
             v \in {<<255>>, <<1, 0>>}}
    \cup {[cmd |-> "device_type_write", kwargs |-> k] :
             k \in SUBSET {Arg("type", <<0>>), Arg("sleepy", <<0>>)}}
    \cup {[cmd |-> "device_type_write",
           kwargs |-> {Arg("type", t), Arg("sleepy", <<1>>)}] :
             t \in {<<>>, <<1>>, <<0, 0>>}}
    \cup {[cmd |-> "device_type_write", kwargs |-> {Arg(n, <<0, 0>>)}] :
             n \in {"type", "sleepy"}}
    \cup {[cmd |-> "form_network", kwargs |-> k] :
             k \in {FormNetworkArgs} \cup {FormNetworkArgs \ {a} : a \in FormNetworkArgs}}
    \cup {[cmd |-> "form_network",
           kwargs |-> {a \in FormNetworkArgs : a.name # "short_pan"}
                          \cup {Arg("short_pan", v)}] :
             v \in {<<>>, <<0>>, <<0, 0, 0>>}}
    \cup {[cmd |-> "add_endpoint", kwargs |-> AddEndpointArgs \ {a}] :
             a \in AddEndpointArgs}
    \cup {[cmd |-> "add_endpoint",
           kwargs |-> AddEndpointArgs \cup {Arg("cluster_data", Run(n, b))}] :
             n \in {0, 1, 2, MaxClusterData - 1, MaxClusterData}, b \in {0, 255}}
    \cup {[cmd |-> "add_endpoint", kwargs |-> AddEndpointArgs]}
    \cup {[cmd |-> "add_endpoint",
           kwargs |-> AddEndpointHighArgs
                          \cup {Arg("cluster_data", Run(MaxClusterData - 1, 255))}]}

(* Values of frame_seq a device has after construction and after commands:  *)
(* the first, and the two before the counter wraps.                         *)
SeqStarts == {Constructed.frame_seq, SeqModulus - 2, SeqModulus - 1}

(* A device whose reader thread is polling an idle line, and a call about   *)
(* to be made.                                                              *)
InitEncode ==
    /\ \E seq \in SeqStarts : InitBusAt(seq)
    /\ thread_continue = TRUE
    /\ serial_open = TRUE
    /\ rt_pc = "check"
    /\ raw_data = <<>>
    /\ wire = <<>>
    /\ feed = <<>>
    /\ script = <<>>
    /\ delivered = <<>>
    /\ dropped = <<>>
    /\ cx_in \in {<<x>> : x \in EncodeInputs}
    /\ cx_out = <<>>
    /\ enc = EncIdle
    /\ sync_names = <<>>

(* The call of a command, which is send(cmd, kwargs) of the base class:     *)
(* self._write(self._build_command(cmd, kwargs)), on a line that loops      *)
(* back: what is written is what the reader reads.  An exception of         *)
(* _build_command leaves the call before _write.                            *)
SendCommand ==
    /\ cx_in # <<>>
    /\ cx_out = <<>>
    /\ LET built == _build_command(cx_in[1].cmd, cx_in[1].kwargs, frame_seq)
       IN  /\ cx_out' = <<built>>
           /\ frame_seq' = built.frame_seq
           /\ IF built.outcome = "ok"
              THEN /\ wire' = wire \o _write(built.packet)
                   /\ sent' = Append(sent, [cmd |-> cx_in[1].cmd,
                                            frame_id |-> built.frame_seq,
                                            payload |-> SubSeq(built.packet, 5,
                                                               Len(built.packet) - 2)])
              ELSE UNCHANGED <<wire, sent>>
    /\ UNCHANGED <<handlers, names, config_state, network_state, result, join_calls,
                   next_rid, callerVars, passVars, scenarioVars, thread_continue,
                   serial_open, rt_pc, raw_data, feed, script, delivered, dropped,
                   cx_in, enc, sync_names>>

NextEncode ==
    \/ SendCommand
    \/ WaitCheckFlag
    \/ WaitPoll
    \/ WaitFill
    \/ WaitParse

SpecEncode == InitEncode /\ [][NextEncode]_vars

-----------------------------------------------------------------------------
(* The reader on a line that carries bytes other than the start byte and    *)
(* then one well-formed frame.                                              *)

MaxNoise == 3       \* bytes ahead of the frame

NoiseBytes == {0, 85, 240, 255}

NoiseInputs ==
    {[noise |-> ns, kind |-> k] :
        ns \in UNION {[1..n -> NoiseBytes] : n \in 0..MaxNoise}, k \in GoodKinds}

InitNoise ==
    /\ InitBus
    /\ thread_continue = FALSE
    /\ serial_open = TRUE
    /\ rt_pc = "unstarted"
    /\ raw_data = <<>>
    /\ wire = <<>>
    /\ cx_in \in {<<x>> : x \in NoiseInputs}
    /\ script = <<cx_in[1].kind>>
    /\ feed = cx_in[1].noise \o FrameBytes(cx_in[1].kind)
    /\ delivered = <<>>
    /\ dropped = <<>>
    /\ cx_out = <<>>
    /\ enc = EncIdle
    /\ sync_names = <<>>

SpecNoise == InitNoise /\ [][NextReader]_vars

-----------------------------------------------------------------------------
(* Commands called one after the other from one context.  cx_in is the      *)
(* sequence of the calls made, cx_out that of their outcomes.               *)

MaxCalls == 3       \* commands called in a row

CallInputs ==
    {[cmd |-> "reset", kwargs |-> {}],
     [cmd |-> "serial_ack", kwargs |-> {}],
     [cmd |-> "serial_ack", kwargs |-> {Arg("on", <<0, 1>>)}],
     [cmd |-> "device_type_write", kwargs |-> {}],
     [cmd |-> "device_type_write", kwargs |-> {Arg("type", <<0>>), Arg("sleepy", <<0>>)}],
     [cmd |-> "add_endpoint", kwargs |-> AddEndpointArgs \cup {Arg("cluster_data", <<0, 0>>)}],
     [cmd |-> "no_such_command", kwargs |-> {}]}

InitCalls ==
    /\ \E seq \in SeqStarts : InitBusAt(seq)
    /\ ReaderAbstract
    /\ CodecIdle

(* One more call: self._write(self._build_command(cmd, kwargs)) *)
CallCommand ==
    /\ Len(cx_in) < MaxCalls
    /\ \E x \in CallInputs :
          LET built == _build_command(x.cmd, x.kwargs, frame_seq)
          IN  /\ cx_in' = Append(cx_in, x)
              /\ cx_out' = Append(cx_out, built)
              /\ frame_seq' = built.frame_seq
              /\ IF built.outcome = "ok"
                 THEN /\ wire' = wire \o _write(built.packet)
                      /\ sent' = Append(sent, [cmd |-> x.cmd,
                                               frame_id |-> built.frame_seq,
                                               payload |-> SubSeq(built.packet, 5,
                                                                  Len(built.packet) - 2)])
                 ELSE UNCHANGED <<wire, sent>>
    /\ UNCHANGED <<handlers, names, config_state, network_state, result, join_calls,
                   next_rid, callerVars, passVars, scenarioVars, thread_continue,
                   serial_open, rt_pc, raw_data, feed, script, delivered, dropped,
                   enc, sync_names>>

SpecCalls == InitCalls /\ [][CallCommand]_vars

-----------------------------------------------------------------------------
(* The decoder on its own: one frame with a right checksum is parsed and    *)
(* its data given to _split_response, as wait_read_frame does.              *)

MaxExtra == 3       \* payload bytes beyond the fixed-length fields of a response

(* The bytes the fixed-length fields of a structure take *)
RECURSIVE FixedLen(_)
FixedLen(fields) ==
    IF fields = <<>> THEN 0
    ELSE (IF Head(fields).len = REST THEN 0 ELSE Head(fields).len) + FixedLen(Tail(fields))

HasRest(fields) == \E i \in 1..Len(fields) : fields[i].len = REST

UnknownIds == {<<0, 0>>, <<119, 119>>, <<255, 255>>}

(* The id bytes _build_command puts first for the commands it encodes *)
EncodedIds == {api_commands(c)[1].default : c \in CommandNames}

(* The payload 1, 2, ..., n: no two of its bytes are the same. *)
Ramp(n) == [i \in 1..n |-> i]

(* Frames of every response with payloads from one byte short of the fixed  *)
(* fields to MaxExtra bytes more, and frames with the id of every command   *)
(* and with ids of neither table.                                           *)
SplitInputs ==
    {Frame(id, seq, Run(n, b)) :
        id \in ((api_command_ids \cup EncodedIds) \ ResponseIds) \cup UnknownIds,
        seq \in {0, 255}, n \in 0..2, b \in {0}}
    \cup UNION {{Frame(id, seq, Run(FixedLen(api_responses(id).structure) + k, 1)) :
                    seq \in {0, 255}, k \in (-1)..MaxExtra} : id \in ResponseIds}
    \cup UNION {{Frame(id, seq, Ramp(FixedLen(api_responses(id).structure) + k)) :
                    seq \in {0, 255}, k \in (-1)..MaxExtra} : id \in ResponseIds}

InitSplit ==
    /\ InitBus
    /\ ReaderAbstract
    /\ cx_in \in {<<x>> : x \in SplitInputs}
    /\ cx_out = <<>>
    /\ enc = EncIdle
    /\ sync_names = <<>>

(* wait_read_frame: self._split_response(frame.data) for the frame that     *)
(* _wait_for_frame parsed.                                                  *)
ApplySplit ==
    /\ cx_in # <<>>
    /\ cx_out = <<>>
    /\ parse(cx_in[1]).outcome = "ok"
    /\ cx_out' = <<_split_response(parse(cx_in[1]).data)>>
    /\ UNCHANGED <<busAndCaller, readerVars, cx_in, enc, sync_names>>

SpecSplit == InitSplit /\ [][ApplySplit]_vars

-----------------------------------------------------------------------------
(* The synchronous adapter wrapping a call that fails.                      *)

(* run_synchronous: the wrapped method is called with arguments that        *)
(* _build_command rejects; the exception leaves run_synchronous.            *)
SyncRaise ==
    /\ call_pc = "sy_call"
    /\ \E x \in CallInputs :
          LET built == _build_command(x.cmd, x.kwargs, frame_seq)
          IN  /\ built.outcome # "ok"
              /\ sync_out' = [sync_out EXCEPT ![sync_id] = built.outcome]
    /\ call_pc' = "idle"
    /\ UNCHANGED <<passVars, busVars, sync_id, sync_n, ad_gen, timers, user_sends, rc_n,
                   scenarioVars>>
    /\ UNCHANGED readerVars
    /\ UNCHANGED codecVars

NextSyncRaise ==
    \/ NextSync
    \/ SyncRaise

SpecSyncRaise == Init /\ [][NextSyncRaise]_vars

(* A second call through the wrapped method the caller already holds:      *)
(* m = device.sync.network_status; m(filter=f); m(filter=g).  handler_id   *)
(* and handler are those of the __getattr__ that returned m; only          *)
(* run_synchronous runs again.                                             *)
SyncCallAgain ==
    /\ call_pc = "idle"
    /\ sync_id >= 1
    /\ sync_n < MaxSync
    /\ next_rid <= MaxHandlers
    /\ sync_n' = sync_n + 1
    /\ \E f \in SyncFilters : Commit(Register(Env, UUIDS[sync_id], "sync", f, sync_id))
    /\ sync_out' = [sync_out EXCEPT ![sync_id] = "pending"]
    /\ sync_names' = Append(sync_names, UUIDS[sync_id])
    /\ call_pc' = "sy_call"
    /\ UNCHANGED <<passVars, sync_id, ad_gen, timers, user_sends, rc_n, scenarioVars>>
    /\ UNCHANGED readerVars
    /\ UNCHANGED <<cx_in, cx_out, enc>>

NextSyncAgain ==
    \/ NextSync
    \/ SyncCallAgain

SpecSyncAgain == Init /\ [][NextSyncAgain]_vars

-----------------------------------------------------------------------------
(* Two contexts inside _build_command at once.  The reader thread encodes   *)
(* the commands of its startup handler while the caller's thread encodes    *)
(* its own; nothing serialises them.  The statement                         *)
(*     self.frame_seq = (self.frame_seq + 1) & 0xFF                         *)
(* is a load of the attribute followed by a store, and the next statement   *)
(* reads the attribute again for the sequence byte: a thread switch can     *)
(* fall between any two of the three.                                       *)

MaxEncodes == 2     \* commands encoded by each context

(* The command each context encodes (both have no field to supply). *)
CommandOf(c) == IF c = "reader" THEN "serial_ack" ELSE "module_info"

Encodes(c) == Cardinality({i \in DOMAIN sent : sent[i].cmd = CommandOf(c)})

InitRace ==
    /\ cx_in \in {<<[frame_seq |-> seq]>> : seq \in SeqStarts}
    /\ InitBusAt(cx_in[1].frame_seq)
    /\ ReaderAbstract
    /\ cx_out = <<>>
    /\ enc = EncIdle
    /\ sync_names = <<>>

raceFrame == <<handlers, names, config_state, network_state, result, join_calls,
               next_rid, callerVars, passVars, scenarioVars, readerVars, cx_in, cx_out,
               sync_names>>

(* The field checks have passed; self.frame_seq is loaded. *)
EncodeLoad(c) ==
    /\ enc[c].pc = "idle"
    /\ Encodes(c) < MaxEncodes
    /\ enc' = [enc EXCEPT ![c] = [pc |-> "loaded", seq |-> frame_seq]]
    /\ UNCHANGED <<frame_seq, sent, raceFrame>>

(* The incremented value is stored into self.frame_seq. *)
EncodeStore(c) ==
    /\ enc[c].pc = "loaded"
    /\ frame_seq' = (enc[c].seq + 1) % SeqModulus
    /\ enc' = [enc EXCEPT ![c].pc = "stored"]
    /\ UNCHANGED <<sent, raceFrame>>

(* packet += intToByte(self.frame_seq) and the rest of the packet, which is *)
(* the packet _build_command makes of the counter value read here.          *)
EncodeByte(c) ==
    /\ enc[c].pc = "stored"
    /\ LET built == _build_command(CommandOf(c), {},
                                   (frame_seq + SeqModulus - 1) % SeqModulus)
       IN  sent' = Append(sent, [cmd |-> CommandOf(c),
                                 frame_id |-> built.packet[3],
                                 payload |-> SubSeq(built.packet, 5,
                                                    Len(built.packet) - 2)])
    /\ enc' = [enc EXCEPT ![c].pc = "idle"]
    /\ UNCHANGED <<frame_seq, raceFrame>>

NextRace ==
    \/ \E c \in Contexts : EncodeLoad(c)
    \/ \E c \in Contexts : EncodeStore(c)
    \/ \E c \in Contexts : EncodeByte(c)

SpecRace == InitRace /\ [][NextRace]_vars

-----------------------------------------------------------------------------
(* Observations used by the claims *)

FormNetworkSent == {i \in 1..Len(sent) : sent[i].cmd = "form_network"}

LittleEndian32(b) == b[1] + 256 * b[2] + 65536 * b[3] + 16777216 * b[4]

CHANNELS_11_TO_25 == 67106816   \* 0x03FFF800

PassOver == rd_pc \in {"done", "idle"}

(* C1 (as amended): bring-up scenario.  When the packets dispatched since   *)
(* construction are startup_sync, startup_sync, an echo of the current      *)
(* sequence number, startup_sync(running=starting,                          *)
(* config=needs_endpoint_config), two more echoes, status_response and      *)
(* network_status_response(down), the controller is in NetworkDown and has  *)
(* issued exactly one form_network command, whose channel mask bytes are    *)
(* 00 F8 FF 03 (0x03FFF800); after a following                              *)
(* network_status_response(up) it is in NetworkUp and no registration named *)
(* 'startup' is left in the bus.                                            *)
C1_BringUpScenario ==
    /\ (scenario = 8 /\ PassOver) =>
          /\ config_state = STATE_NETWORK_DOWN
          /\ Cardinality(FormNetworkSent) = 1
          /\ \A i \in FormNetworkSent :
                /\ SubSeq(sent[i].payload, 1, 4) = <<0, 248, 255, 3>>
                /\ LittleEndian32(sent[i].payload) = CHANNELS_11_TO_25
    /\ (scenario = 9 /\ PassOver) =>
          /\ config_state = STATE_NETWORK_UP
          /\ Cardinality(FormNetworkSent) = 1
          /\ ~Registered("startup")
          /\ "startup" \notin names

C1_Witness ==
    /\ scenario = 9
    /\ rd_pc = "done"
    /\ config_state = STATE_NETWORK_UP
    /\ Cardinality(FormNetworkSent) = 1

(* C1 as stated: the event sequence startup_sync(starting,                  *)
(* needs_endpoint_config), startup_sync, an echo at each echo-waiting       *)
(* state, status_response, network_status_response(down) ends in            *)
(* NetworkDown with exactly one form_network issued.                        *)
C1_AsStated ==
    (scenario_lit = 4 /\ PassOver) =>
        /\ config_state = STATE_NETWORK_DOWN
        /\ Cardinality(FormNetworkSent) = 1

Count(s, x) == Cardinality({i \in 1..Len(s) : s[i] = x})

MatchingNow(h) == Matches(h.filt, rd_pkt)

InSnap(h) == h \in Range(snap)

(* C2: a synchronous call that ended with the timeout error leaves no       *)
(* registration under its handler name in the bus.                          *)
C2_NoResidualRegistration ==
    \A n \in 1..sync_n : sync_out[n] = "timeout" => ~Registered(UUIDS[n])

(* C3: at the end of a dispatch pass in which only callbacks changed the    *)
(* registration list, every registration that was present when the pass     *)
(* began, is still registered and whose filter accepts the packet has had   *)
(* its callback invoked exactly once.                                       *)
C3_SelfUnregisterKeepsPass ==
    rd_pc = "done" =>
        \A h \in Range(snap) :
            (MatchingNow(h) /\ h \in Range(handlers)) => Count(invoked, h) = 1

(* C4: a call unregister_dispatch(n) of a registered name n leaves no       *)
(* registration named n and keeps every other registration, in order.       *)
C4_UnregisterRemovesAll ==
    [][\A n \in UserNames :
          (n \in names /\ n \notin names') =>
              handlers' = SelectSeq(handlers, LAMBDA h : h.name # n)]_vars

(* C5: at the end of a dispatch pass the callbacks invoked among the        *)
(* registrations present when the pass began are exactly those whose filter *)
(* accepts the packet, each once, in registration order, and no callback    *)
(* whose filter rejects the packet was invoked.                             *)
C5_DispatchInvokesMatching ==
    rd_pc = "done" =>
        /\ SelectSeq(invoked, InSnap) = SelectSeq(snap, MatchingNow)
        /\ \A h \in Range(invoked) : MatchingNow(h)

(* C8: while the reader thread is inside a dispatch pass, no step of        *)
(* another context changes the registration list.                           *)
C8_MutualExclusion ==
    [][(rd_pc = "dispatch" /\ rd_pc' = "dispatch" /\ rd_idx' = rd_idx)
          => handlers' = handlers]_vars

JoinHandlerOf(g) == {h \in Range(handlers) : h.cb = "join" /\ h.arg = g}

(* C9: after add_device has returned, and until a join event was dispatched *)
(* or the call's own timer expired or add_device was called again, the join *)
(* handler of the call is registered; a pass for a join event that began    *)
(* with the handler registered ends with the callback invoked exactly once  *)
(* and the handler removed; a leave event never invokes the callback, and   *)
(* the callback is never invoked twice.                                     *)
C9_FirstJoinEventCompletes ==
    /\ \A g \in 1..ad_gen :
          (g = ad_gen /\ call_pc = "idle" /\ timers[g] = "waiting" /\ join_calls[g] = 0
              /\ rd_pc = "idle")
              => JoinHandlerOf(g) # {}
    /\ \A g \in 1..ad_gen : join_calls[g] <= 1
    /\ rd_pc = "done" =>
          \A h \in Range(snap) :
              (h.cb = "join" /\ h.arg = ad_gen /\ timers[h.arg] = "waiting"
                  /\ call_pc = "idle")
                  => IF Matches("join", rd_pkt)
                     THEN join_calls[h.arg] = 1 /\ h \notin Range(handlers)
                     ELSE join_calls[h.arg] = 0

(* C10: the expiry of a timer started by one add_device call removes no     *)
(* join handler registered by another add_device call.                      *)
C10_StaleTimerKeepsLaterHandler ==
    [][\A g \in DOMAIN timers :
          (timers[g] = "firing" /\ timers'[g] = "done") =>
              \A h \in Range(handlers) :
                  (h.cb = "join" /\ h.arg # g) => h \in Range(handlers')]_vars

IsPrefix(a, b) == Len(a) <= Len(b) /\ SubSeq(b, 1, Len(a)) = a

RECURSIVE ExpectedPackets(_)
ExpectedPackets(s) ==
    IF s = <<>> THEN <<>>
    ELSE (IF Head(s) \in GoodKinds THEN <<ExpectedPacket(Head(s))>> ELSE <<>>)
             \o ExpectedPackets(Tail(s))

(* The exception each kind of bad frame raises *)
ExpectedDrop(kind) ==
    CASE kind = "unrecognized" -> "KeyError"
      [] kind = "echo" -> "CommandFrameException"
      [] OTHER -> "ValueError"

RECURSIVE ExpectedDrops(_)
ExpectedDrops(s) ==
    IF s = <<>> THEN <<>>
    ELSE (IF Head(s) \in BadKinds THEN <<ExpectedDrop(Head(s))>> ELSE <<>>)
             \o ExpectedDrops(Tail(s))

(* Every byte the module transmits has been read and handled. *)
AllRead ==
    /\ feed = <<>>
    /\ wire = <<>>
    /\ raw_data = <<>>
    /\ rt_pc \in {"check", "poll"}

(* C6: once halt() has cleared the stop flag, with the reader thread in its *)
(* frame loop, the reader thread eventually exits.                          *)
C6_HaltedReaderExits ==
    (~serial_open /\ ~thread_continue /\ rt_pc \notin {"unstarted", "run"})
        ~> (rt_pc = "exited")

(* C7: the packets handed to the callback are, in order, those of the       *)
(* well-formed frames transmitted: none for a frame with a wrong checksum,  *)
(* an unrecognized id, a command id, a truncated or an overlong payload.    *)
(* Before halt() the reader thread never ends, and once every transmitted   *)
(* byte has been read each well-formed frame has been dispatched, the ones  *)
(* that follow bad frames included, and each bad frame has ended in the     *)
(* exception of its kind.                                                   *)
C7_BadFrameDropped ==
    /\ IsPrefix(delivered, ExpectedPackets(script))
    /\ serial_open => rt_pc \notin {"exited", "blocked"}
    /\ AllRead =>
          /\ delivered = ExpectedPackets(script)
          /\ dropped = ExpectedDrops(script)

C7_Witness ==
    /\ AllRead
    /\ serial_open
    /\ rd_pc = "idle"
    /\ script = <<"unrecognized", "status">>
    /\ dropped = <<"KeyError">>
    /\ delivered = <<ExpectedPacket("status")>>

RestoreDefaultsSent == {i \in 1..Len(sent) : sent[i].cmd = "restore_defaults"}

(* C11: at the return of reconfigure the bus holds exactly one              *)
(* registration, created by this call and named 'startup', every            *)
(* registration that existed before is gone, one restore_defaults command   *)
(* has been sent per call, and the bring-up state is WaitingStartupSync.    *)
C11_ReconfigureRestarts ==
    [][(call_pc = "rc_register" /\ call_pc' = "idle") =>
          /\ Len(handlers') = 1
          /\ handlers'[1].name = "startup"
          /\ handlers'[1].rid = next_rid
          /\ names' = {"startup"}
          /\ Cardinality(RestoreDefaultsSent) = rc_n
          /\ config_state' = STATE_WAITING_STARTUP_SYNC]_vars

IsStatusDown(p) ==
    p.id = "network_status_response" /\ p.network_status = NETWORK_STATUS_DOWN

(* C12: since construction at most one form_network command is sent; the    *)
(* step that sends it is the startup handler's, taken in StartupSyncComplete *)
(* on a network_status_response with status down, and ends in NetworkDown;  *)
(* StartupSyncComplete is never entered again from NetworkDown or           *)
(* NetworkUp; a status-down packet handled in NetworkDown sends nothing and *)
(* leaves the state NetworkDown.                                            *)
C12_FormNetworkOnce ==
    /\ [](Cardinality(FormNetworkSent) <= 1)
    /\ [][/\ (Len(sent') > Len(sent) /\ sent'[Len(sent')].cmd = "form_network") =>
                /\ rd_pc = "dispatch"
                /\ config_state = STATE_STARTUP_SYNC_COMPLETE
                /\ IsStatusDown(rd_pkt)
                /\ config_state' = STATE_NETWORK_DOWN
          /\ (config_state \in {STATE_NETWORK_DOWN, STATE_NETWORK_UP}) =>
                config_state' \in {config_state, STATE_NETWORK_UP}
          /\ (config_state = STATE_NETWORK_DOWN /\ rd_pc = "dispatch"
                 /\ IsStatusDown(rd_pkt) /\ rd_idx' = rd_idx + 1) =>
                /\ sent' = sent
                /\ config_state' = STATE_NETWORK_DOWN]_vars

C12_Witness ==
    /\ rd_pc = "done"
    /\ IsStatusDown(rd_pkt)
    /\ rd_pkt.frame_id = frame_seq
    /\ invoked # <<>>
    /\ invoked[1].name = "startup"
    /\ config_state = STATE_NETWORK_DOWN
    /\ Cardinality(FormNetworkSent) = 1
    /\ sent[Len(sent)].cmd = "form_network"
    /\ sent[Len(sent)].frame_id = frame_seq

(* The step of a dispatch pass in which the startup handler is called *)
StartupHandlerCalled ==
    /\ rd_pc = "dispatch"
    /\ rd_idx' = rd_idx + 1
    /\ rd_idx < Len(PassList)
    /\ PassList[rd_idx + 1].cb = "startup"

NextSeq == (frame_seq + 1) % SeqModulus

(* C13 (as amended): when the startup handler is called in                  *)
(* WaitingStartupSync with a startup_sync packet, it sends exactly one      *)
(* command, reset, carrying the next sequence number, and the state becomes *)
(* SerialAck; the state StartupReset is never entered.                      *)
C13_FirstStartupSync ==
    /\ [](config_state # STATE_STARTUP_RESET)
    /\ [][(StartupHandlerCalled /\ config_state = STATE_WAITING_STARTUP_SYNC
              /\ rd_pkt.id = "startup_sync") =>
             /\ sent' = Append(sent, [cmd |-> "reset", frame_id |-> NextSeq,
                                      payload |-> <<>>])
             /\ frame_seq' = NextSeq
             /\ config_state' = STATE_SERIAL_ACK]_vars

C13_Witness ==
    /\ rd_pc = "dispatch"
    /\ rd_idx = 1
    /\ rd_pkt.id = "startup_sync"
    /\ invoked # <<>>
    /\ invoked[1].cb = "startup"
    /\ sent = <<[cmd |-> "reset", frame_id |-> 1, payload |-> <<>>]>>
    /\ config_state = STATE_SERIAL_ACK

(* C13 as stated: the state becomes StartupReset. *)
C13_AsStated ==
    [][(StartupHandlerCalled /\ config_state = STATE_WAITING_STARTUP_SYNC
           /\ rd_pkt.id = "startup_sync") =>
          config_state' = STATE_STARTUP_RESET]_vars

(* The startup handler is called in HostStartupReadyAck with a startup_sync *)
AtHostStartupReadyAck ==
    /\ StartupHandlerCalled
    /\ config_state = STATE_HOST_STARTUP_READY_ACK
    /\ rd_pkt.id = "startup_sync"

(* The handler's step sent exactly one command, named cmd. *)
SentOne(cmd) ==
    /\ Len(sent') = Len(sent) + 1
    /\ SubSeq(sent', 1, Len(sent)) = sent
    /\ sent'[Len(sent')].cmd = cmd

(* C14 (as amended): on a startup_sync packet handled in                    *)
(* HostStartupReadyAck, a running-state flag of 'starting' makes the        *)
(* configuration-state flag decide: configured gives StartupSyncComplete    *)
(* with a startup_sync query sent, needs-endpoint-config gives              *)
(* ClearEndpoints with clear_endpoint_config sent, any other value gives    *)
(* ConfigureDeviceType with device_type_write sent; a running-state flag    *)
(* other than 'starting' gives StartupSyncComplete with a startup_sync      *)
(* query sent, whatever the configuration-state flag.                       *)
C14_FlagsDecide ==
    [][AtHostStartupReadyAck =>
          /\ (rd_pkt.running_state = RUNNING_STATE_STARTING
                 /\ rd_pkt.config_state = CONFIGURATION_STATE_CONFIGURED) =>
                (config_state' = STATE_STARTUP_SYNC_COMPLETE /\ SentOne("startup_sync"))
          /\ (rd_pkt.running_state = RUNNING_STATE_STARTING
                 /\ rd_pkt.config_state = CONFIGURATION_STATE_NEEDS_ENDPOINT_CONFIG) =>
                (config_state' = STATE_CLEAR_ENDPOINTS /\ SentOne("clear_endpoint_config"))
          /\ (rd_pkt.running_state = RUNNING_STATE_STARTING
                 /\ rd_pkt.config_state = CONFIGURATION_STATE_FACTORY_DEFAULT) =>
                (config_state' = STATE_CONFIGURE_DEVICE_TYPE /\ SentOne("device_type_write"))
          /\ (rd_pkt.running_state # RUNNING_STATE_STARTING) =>
                (config_state' = STATE_STARTUP_SYNC_COMPLETE /\ SentOne("startup_sync"))]_vars

C14_Witness ==
    /\ scenario = 4
    /\ rd_pc = "dispatch"
    /\ rd_idx = 1
    /\ rd_pkt.running_state = RUNNING_STATE_STARTING
    /\ rd_pkt.config_state = CONFIGURATION_STATE_NEEDS_ENDPOINT_CONFIG
    /\ config_state = STATE_CLEAR_ENDPOINTS
    /\ sent[Len(sent)].cmd = "clear_endpoint_config"

(* C14 as stated: a flag of 'running' makes the configuration-state flag    *)
(* decide among StartupSyncComplete, ClearEndpoints and                     *)
(* ConfigureDeviceType, and a module not running gives StartupSyncComplete. *)
C14_AsStated ==
    [][AtHostStartupReadyAck =>
          /\ (rd_pkt.running_state = RUNNING_STATE_RUNNING
                 /\ rd_pkt.config_state = CONFIGURATION_STATE_CONFIGURED) =>
                (config_state' = STATE_STARTUP_SYNC_COMPLETE /\ SentOne("startup_sync"))
          /\ (rd_pkt.running_state = RUNNING_STATE_RUNNING
                 /\ rd_pkt.config_state = CONFIGURATION_STATE_NEEDS_ENDPOINT_CONFIG) =>
                config_state' = STATE_CLEAR_ENDPOINTS
          /\ (rd_pkt.running_state = RUNNING_STATE_RUNNING
                 /\ rd_pkt.config_state = CONFIGURATION_STATE_FACTORY_DEFAULT) =>
                (config_state' = STATE_CONFIGURE_DEVICE_TYPE /\ SentOne("device_type_write"))
          /\ (rd_pkt.running_state # RUNNING_STATE_RUNNING) =>
                config_state' = STATE_STARTUP_SYNC_COMPLETE]_vars

(* C15: at the end of a dispatch pass for a network_status_response packet  *)
(* the controller's network_state is that packet, whatever the bring-up     *)
(* state.                                                                   *)
C15_NetworkStateIsLatest ==
    (rd_pc = "done" /\ rd_pkt.id = "network_status_response") => network_state = rd_pkt

(* C16: verify returns a boolean for every data and checksum: true exactly  *)
(* when the checksum is the little-endian encoding of the sum of the data   *)
(* bytes modulo 65536.                                                      *)
C16_VerifyIsSumMod65536 ==
    cx_out # <<>> =>
        cx_out[1] = IF cx_in[1].chksum = PackH(SumBytes(cx_in[1].data) % 65536)
                    THEN "true" ELSE "false"

(* The command of the call was encoded and written. *)
Encoded == cx_out # <<>> /\ cx_out[1].outcome = "ok"

(* The assembler has a complete frame and parses it in this step. *)
FrameCompleted == rt_pc = "fill" /\ remaining_bytes(raw_data) <= 0 /\ rt_pc' # "fill"

(* C17: the bytes encode_command produces for a call it accepts, written    *)
(* after the start byte and read byte by byte by the assembler, form        *)
(* exactly one complete frame: the frame the assembler completes is the     *)
(* whole of what was written with nothing left on the line, the checksum    *)
(* recomputed over its id, sequence, length and field bytes is the two      *)
(* checksum bytes encoded, and it passes verification; once the line is     *)
(* read empty the assembler has completed one frame and no more.            *)
C17_EncodeRoundTrip ==
    /\ [][(Encoded /\ FrameCompleted) =>
              /\ raw_data = _write(cx_out[1].packet)
              /\ wire = <<>>
              /\ parse(raw_data).outcome = "ok"]_vars
    /\ [](Encoded /\ wire = <<>> /\ raw_data = <<>> => Len(dropped) + Len(delivered) = 1)

(* What wait_read_frame returns for the bytes of one frame alone *)
DecodedAlone(bytes) == ToPkt(_split_response(parse(bytes).data).info)

(* C18: bytes none of which is the start byte, then one well-formed frame:  *)
(* the reader hands on at most one packet, never drops anything with an     *)
(* exception, and once all the bytes are read it has handed on exactly one  *)
(* packet, the one the frame alone decodes to.                              *)
C18_NoiseThenFrame ==
    /\ dropped = <<>>
    /\ delivered \in {<<>>, <<DecodedAlone(FrameBytes(cx_in[1].kind))>>}
    /\ AllRead => delivered = <<DecodedAlone(FrameBytes(cx_in[1].kind))>>

C18_Witness ==
    /\ AllRead
    /\ Len(cx_in[1].noise) = MaxNoise
    /\ cx_in[1].noise[1] = 255
    /\ cx_in[1].kind = "sync"
    /\ delivered = <<ExpectedPacket("sync")>>

(* The assembler has completed a frame whose length byte is zero and whose  *)
(* checksum is right.                                                       *)
EmptyFrameCompleted ==
    /\ FrameCompleted
    /\ raw_data[5] = 0
    /\ parse(raw_data).outcome = "ok"

(* C19: a complete frame with a right checksum and a payload length of zero *)
(* is dropped inside the assembler: it is not returned to wait_read_frame,  *)
(* so no packet is dispatched and no exception of the decoder is raised for *)
(* it, and the assembler scans for the next start byte.                     *)
C19_EmptyFrameIgnored ==
    [][EmptyFrameCompleted =>
          /\ UNCHANGED <<delivered, dropped>>
          /\ rt_pc' = "check"
          /\ raw_data' = <<>>]_vars

(* The fields after the id of the command called *)
FieldsCalled == Tail(api_commands(cx_in[1].cmd))

(* A field of fixed length without a value from the caller and without a    *)
(* default; a field of fixed length whose value from the caller has another *)
(* length.                                                                  *)
MissingFields ==
    {i \in 1..Len(FieldsCalled) :
        /\ FieldsCalled[i].len # REST
        /\ ~Given(cx_in[1].kwargs, FieldsCalled[i].name)
        /\ FieldsCalled[i].default = <<>>}

MismatchedFields ==
    {i \in 1..Len(FieldsCalled) :
        /\ FieldsCalled[i].len # REST
        /\ Given(cx_in[1].kwargs, FieldsCalled[i].name)
        /\ Len(ValueOf(cx_in[1].kwargs, FieldsCalled[i].name)) # FieldsCalled[i].len}

(* C20: a call with a fixed-length field that has neither a value nor a     *)
(* default fails with KeyError (MissingField), a call with a value of the   *)
(* wrong length for a fixed-length field fails with ValueError              *)
(* (FieldLengthMismatch), a call with both fails with the one or the other; *)
(* and a call that failed has written nothing to the serial line.           *)
C20_EncodeFailsBeforeWrite ==
    cx_out # <<>> =>
        /\ (MissingFields # {} /\ MismatchedFields = {}) => cx_out[1].outcome = "KeyError"
        /\ (MismatchedFields # {} /\ MissingFields = {}) => cx_out[1].outcome = "ValueError"
        /\ (MissingFields # {} /\ MismatchedFields # {}) =>
              cx_out[1].outcome \in {"KeyError", "ValueError"}
        /\ cx_out[1].outcome # "ok" =>
              /\ wire = <<>>
              /\ raw_data = <<>>
              /\ sent = <<>>

C20_Witness ==
    /\ cx_out # <<>>
    /\ cx_in[1].cmd = "form_network"
    /\ MissingFields = {4}
    /\ MismatchedFields = {}
    /\ cx_out[1].outcome = "KeyError"
    /\ rt_pc = "poll"

(* The packets of the calls that succeeded, in the order of the calls *)
IsOk(b) == b.outcome = "ok"
OkPackets == SelectSeq(cx_out, IsOk)

(* C21: a call that succeeds leaves frame_seq one higher modulo 256 than it *)
(* found it and writes the new value as the third byte of the packet, after *)
(* the two id bytes; so the packets of calls made one after the other carry *)
(* consecutive sequence bytes modulo 256, 0 following 255.                  *)
C21_SequenceIncrements ==
    /\ [][(Len(cx_out') > Len(cx_out) /\ IsOk(cx_out'[Len(cx_out')])) =>
              /\ frame_seq' = (frame_seq + 1) % 256
              /\ cx_out'[Len(cx_out')].packet[3] = frame_seq'
              /\ frame_seq' \in 0..255]_vars
    /\ [](\A i \in 1..(Len(OkPackets) - 1) :
              OkPackets[i + 1].packet[3] = (OkPackets[i].packet[3] + 1) % 256)

C21_Witness ==
    /\ Len(OkPackets) = 3
    /\ OkPackets[1].packet[3] = 255
    /\ OkPackets[2].packet[3] = 0
    /\ OkPackets[3].packet[3] = 1

(* The id bytes and the payload of the frame decoded *)
SplitId == SubSeq(cx_in[1], 2, 3)
SplitPayload == SubSeq(cx_in[1], 6, Len(cx_in[1]) - 2)

(* C22: two id bytes that are no key of api_responses make the decoder fail *)
(* with CommandFrameException (UnexpectedCommandEcho) when they are the     *)
(* default id of a command and with KeyError (UnrecognizedResponse) when    *)
(* they are not (the id bytes an encoded command begins with are such       *)
(* default ids); id bytes that are a key of api_responses raise neither,    *)
(* and 55 03, the id of the module_info command too, decodes as the         *)
(* module_info_response.                                                    *)
C22_UnknownIdErrors ==
    cx_out # <<>> =>
        /\ (SplitId \notin ResponseIds /\ SplitId \in api_command_ids) =>
              cx_out[1].outcome = "CommandFrameException"
        /\ (SplitId \notin ResponseIds /\ SplitId \in EncodedIds) =>
              cx_out[1].outcome = "CommandFrameException"
        /\ (SplitId \notin ResponseIds /\ SplitId \notin api_command_ids) =>
              cx_out[1].outcome = "KeyError"
        /\ SplitId \in ResponseIds =>
              cx_out[1].outcome \notin {"CommandFrameException", "KeyError"}
        /\ (SplitId = <<85, 3>> /\ Len(SplitPayload) = 15) =>
              /\ cx_out[1].outcome = "ok"
              /\ cx_out[1].info["id"] = "module_info_response"

C22_Witness ==
    /\ cx_out # <<>>
    /\ SplitId = <<85, 0>>
    /\ cx_out[1].outcome = "CommandFrameException"

(* Payload bytes the declared fields of the response do not take *)
Leftover ==
    LET structure == api_responses(SplitId).structure
    IN  IF HasRest(structure) THEN 0
        ELSE Len(SplitPayload) - FixedLen(structure)

(* C23: the decoder fails with ValueError (OverlongResponse) whenever bytes *)
(* of the payload are left over after the declared fields of the response,  *)
(* and succeeds only when the declared fields take every byte of it.        *)
C23_LeftoverIsOverlong ==
    (cx_out # <<>> /\ SplitId \in ResponseIds) =>
        /\ Leftover > 0 => cx_out[1].outcome = "ValueError"
        /\ cx_out[1].outcome = "ok" => Leftover = 0

(* The entry of the result table for synchronous call n *)
HasResult(tbl, n) == \E e \in tbl : e.id = UUIDS[n]
ResultOf(tbl, n) == (CHOOSE e \in tbl : e.id = UUIDS[n]).packet

(* Synchronous call n returns its result in this step. *)
SyncReturns(n) == sync_out[n] = "pending" /\ sync_out'[n] = "returned"

(* C24: a synchronous call that returns normally returns the first packet   *)
(* its filter accepted among those dispatched while its handler was         *)
(* registered; at its return the handler is not registered and the result   *)
(* table has no entry for the call; and no packet is recorded for the call  *)
(* after that.                                                              *)
C24_SyncReturnsFirstMatch ==
    [][\A n \in 1..MaxSync :
          /\ SyncReturns(n) =>
                /\ HasResult(result, n)
                /\ sync_seen[n] \in {ResultOf(result, n), NoPacket}
                /\ ~HasResult(result', n)
                /\ \A h \in Range(handlers') : h.name # UUIDS[n]
          /\ sync_out[n] = "returned" => ~HasResult(result', n)]_vars

(* C25: a synchronous call whose wrapped method raised (KeyError for a      *)
(* missing field, ValueError for a wrong length) leaves no registration     *)
(* under its handler name in the bus.                                       *)
C25_FailedCallUnregisters ==
    \A n \in 1..sync_n :
        sync_out[n] \in {"KeyError", "ValueError"} => ~Registered(UUIDS[n])

(* The packet of the pass carries the current sequence number. *)
EchoesCurrent == rd_pkt.frame_id = frame_seq

(* C26: called in ClearEndpoints with a packet echoing the current sequence *)
(* number, the startup handler sends exactly one command, add_endpoint, and *)
(* the state becomes AddAttributes; in AddAttributes such a packet makes it *)
(* send exactly one add_attribute_to_cluster and the state becomes          *)
(* AddAttributesAck; in AddAttributesAck a status_response makes it send    *)
(* one startup_sync query and the state becomes StartupSyncComplete, and    *)
(* any other packet leaves the state and sends nothing.                     *)
C26_EndpointSteps ==
    [][StartupHandlerCalled =>
          /\ (config_state = STATE_CLEAR_ENDPOINTS /\ EchoesCurrent) =>
                /\ SentOne("add_endpoint")
                /\ sent'[Len(sent')].payload = AddEndpointPayload
                /\ config_state' = STATE_ADD_ATTRIBUTES
          /\ (config_state = STATE_ADD_ATTRIBUTES /\ EchoesCurrent) =>
                /\ SentOne("add_attribute_to_cluster")
                /\ sent'[Len(sent')].payload = AddAttributePayload
                /\ config_state' = STATE_ADD_ATTRIBUTES_ACK
          /\ (config_state = STATE_ADD_ATTRIBUTES_ACK /\ rd_pkt.id = "status_response") =>
                /\ SentOne("startup_sync")
                /\ config_state' = STATE_STARTUP_SYNC_COMPLETE
          /\ (config_state = STATE_ADD_ATTRIBUTES_ACK /\ rd_pkt.id # "status_response") =>
                /\ sent' = sent
                /\ config_state' = config_state]_vars

C26_Witness ==
    /\ rd_pc = "dispatch"
    /\ rd_idx = 1
    /\ rd_pkt.id = "status_response"
    /\ config_state = STATE_STARTUP_SYNC_COMPLETE
    /\ Len(sent) >= 3
    /\ sent[Len(sent) - 2].cmd = "add_endpoint"
    /\ sent[Len(sent) - 1].cmd = "add_attribute_to_cluster"
    /\ sent[Len(sent)].cmd = "startup_sync"

(* C27: the bring-up state only moves forward: no step of a dispatch pass  *)
(* sets it to an earlier state of the bring-up order, the startup handler  *)
(* called in NetworkUp neither changes the state nor sends a command, and  *)
(* the only step that sets the state back is setup_configuration (run by   *)
(* reconfigure), which sets WaitingStartupSync.                            *)
C27_StateMovesForward ==
    [][/\ config_state' < config_state =>
             /\ call_pc = "rc_state"
             /\ config_state' = STATE_WAITING_STARTUP_SYNC
       /\ (StartupHandlerCalled /\ config_state = STATE_NETWORK_UP) =>
             /\ config_state' = STATE_NETWORK_UP
             /\ sent' = sent]_vars

(* The startup handler has been called in NetworkUp (the packet of the pass *)
(* is not one that enters NetworkUp), after a reconfigure had set the state *)
(* back and the handshake had run again.                                    *)
C27_Witness ==
    /\ rc_n = 1
    /\ call_pc = "idle"
    /\ config_state = STATE_NETWORK_UP
    /\ rd_pc = "dispatch"
    /\ rd_idx >= 1
    /\ Len(PassList) >= 1
    /\ PassList[1].cb = "startup"
    /\ rd_pkt.id = "startup_sync"

(* C28: whenever the controller is in NetworkUp, by either path, the       *)
(* 'startup' handler is no longer registered in the dispatch bus.          *)
C28_NetworkUpUnregisters ==
    config_state = STATE_NETWORK_UP =>
        /\ "startup" \notin names
        /\ \A i \in DOMAIN handlers : handlers[i].name # "startup"

(* The commands written by the startup handler: the caller of the bring-up *)
(* specification issues network_status queries only.                       *)
OwnCommands == {i \in DOMAIN sent : sent[i].cmd # "network_status"}

(* The sequence number of the last command the startup handler sent, which *)
(* in an echo-waiting state is the command it sent on entering the state.  *)
OwnSeq ==
    LET last == CHOOSE i \in OwnCommands : \A j \in OwnCommands : j <= i
    IN sent[last].frame_id

(* C29: in the echo-waiting states the startup handler advances the state  *)
(* only on a packet whose frame_id is the sequence number of the command   *)
(* the handler itself sent on entering the state; the response to a        *)
(* command the caller issued in the meantime never advances it.            *)
C29_OnlyOwnEchoAdvances ==
    [][(/\ StartupHandlerCalled
        /\ config_state \in EchoWaiting
        /\ config_state' # config_state) =>
            /\ OwnCommands # {}
            /\ rd_pkt.frame_id = OwnSeq]_vars

(* The increments made so far: one for every command encoded and one for   *)
(* every context that has stored its increment and not yet read it back.   *)
Increments == Len(sent) + Cardinality({c \in Contexts : enc[c].pc = "stored"})

(* C30: when the reader thread's handler and a caller context encode       *)
(* commands concurrently, no increment of the sequence counter is lost     *)
(* (the counter is its starting value plus the number of increments, mod   *)
(* 256), each encoded command carries the value its own increment          *)
(* produced, and no two commands encoded within a window of 256 carry the  *)
(* same sequence byte.                                                     *)
C30_NoLostIncrement ==
    /\ [](/\ frame_seq = (cx_in[1].frame_seq + Increments) % SeqModulus
          /\ \A i, j \in DOMAIN sent :
                i # j => sent[i].frame_id # sent[j].frame_id)
    /\ [][\A c \in Contexts :
             (enc[c].pc = "stored" /\ enc'[c].pc = "idle") =>
                 sent'[Len(sent')].frame_id = (enc[c].seq + 1) % SeqModulus]_vars

(* Synchronous call n raises TimeoutError in this step. *)
SyncTimesOut(n) == sync_out[n] = "pending" /\ sync_out'[n] = "timeout"

(* C31: a synchronous call raises TimeoutError only if no packet accepted   *)
(* by its filter was recorded for it between the registration and the       *)
(* raise: a match the reader thread recorded at any moment of the wait, the *)
(* last poll interval included, is returned and not lost.                   *)
C31_TimeoutOnlyWithoutMatch ==
    [][\A n \in 1..MaxSync : SyncTimesOut(n) => ~HasResult(result, n)]_vars

(* halt() has been called: it is the only step that closes the port. *)
Halted == rt_pc # "unstarted" /\ ~serial_open

(* C32: a halt() issued after start_thread() has returned is never lost:    *)
(* once halt() has cleared the continue flag no step sets it again, so the  *)
(* reader finds it cleared at its next test of the flag.                    *)
C32_HaltNeverLost ==
    [][(Halted /\ ~thread_continue) => ~thread_continue']_vars

(* The call before call j that succeeded, 0 when there is none. *)
PreviousOk(j) ==
    IF \E i \in 1..(j - 1) : IsOk(cx_out[i])
    THEN CHOOSE i \in 1..(j - 1) :
            IsOk(cx_out[i]) /\ \A k \in (i + 1)..(j - 1) : ~IsOk(cx_out[k])
    ELSE 0

(* C33: a call of a command that fails (unknown command, missing field,    *)
(* field of the wrong length) leaves the sequence counter as it was and    *)
(* writes nothing, so a successful command carries the sequence number     *)
(* following that of the successful command before it, whatever failed in  *)
(* between.                                                                *)
C33_FailedEncodeKeepsCounter ==
    /\ [][(Len(cx_out') > Len(cx_out) /\ ~IsOk(cx_out'[Len(cx_out')])) =>
              /\ frame_seq' = frame_seq
              /\ sent' = sent
              /\ wire' = wire]_vars
    /\ [](\A j \in DOMAIN cx_out :
              (IsOk(cx_out[j]) /\ PreviousOk(j) # 0) =>
                  cx_out[j].packet[3] =
                      (cx_out[PreviousOk(j)].packet[3] + 1) % SeqModulus)

(* A successful command, then an unknown command, a missing field or a     *)
(* wrong length, then a successful command, across the wrap of the counter. *)
C33_Witness ==
    /\ Len(cx_out) = 3
    /\ IsOk(cx_out[1])
    /\ cx_out[2].outcome \in {"KeyError", "ValueError"}
    /\ cx_in[2].cmd \in {"no_such_command", "device_type_write", "serial_ack"}
    /\ IsOk(cx_out[3])
    /\ cx_out[1].packet[3] = SeqModulus - 1
    /\ cx_out[3].packet[3] = 0

(* The frame data the decoder is given: id, sequence byte, length byte and *)
(* payload.                                                                *)
SplitData == parse(cx_in[1]).data

(* The number of bytes of the data before field i of a structure: the four *)
(* header bytes and the fixed-length fields before it.                     *)
FieldStart(fields, i) == 4 + FixedLen(SubSeq(fields, 1, i - 1))

(* Fewer bytes remain for a fixed-length field than its declared length. *)
Truncated(fields) ==
    \E i \in 1..Len(fields) :
        /\ fields[i].len # REST
        /\ FieldStart(fields, i) + fields[i].len > Len(SplitData)

(* C35: decoding a response, a fixed-length field for which fewer bytes    *)
(* remain than its declared length makes the decoder fail with ValueError  *)
(* (TruncatedResponse); every fixed-length field of a decoded packet is    *)
(* the bytes at its place; a trailing field with no length is all the      *)
(* remaining bytes, and is absent from the packet when none remain; every  *)
(* decoded packet carries the name of the response as id and the third     *)
(* byte of the data as frame_id.                                           *)
C35_FieldsDecoded ==
    (cx_out # <<>> /\ SplitId \in ResponseIds) =>
        LET fields == api_responses(SplitId).structure
            out == cx_out[1]
        IN  /\ Truncated(fields) => out.outcome = "ValueError"
            /\ out.outcome = "ok" =>
                  /\ out.info["id"] = api_responses(SplitId).name
                  /\ out.info["frame_id"] = SplitData[3]
                  /\ \A i \in 1..Len(fields) :
                        LET start == FieldStart(fields, i)
                        IN  IF fields[i].len # REST
                            THEN /\ fields[i].name \in DOMAIN out.info
                                 /\ out.info[fields[i].name] =
                                       SubSeq(SplitData, start + 1, start + fields[i].len)
                            ELSE IF Len(SplitData) > start
                            THEN /\ fields[i].name \in DOMAIN out.info
                                 /\ out.info[fields[i].name] =
                                       SubSeq(SplitData, start + 1, Len(SplitData))
                            ELSE fields[i].name \notin DOMAIN out.info

(* An endpoint_list_response decoded with two bytes left for its trailing  *)
(* field, which holds them.                                                *)
C35_Witness ==
    /\ cx_out # <<>>
    /\ SplitId = <<3, 18>>
    /\ cx_out[1].outcome = "ok"
    /\ cx_out[1].info["frame_id"] = SeqModulus - 1
    /\ cx_out[1].info["endpoints"] = <<1>>
    /\ "data" \in DOMAIN cx_out[1].info
    /\ cx_out[1].info["data"] = <<2, 3>>

(* C34: every synchronous call uses a handler name no other synchronous    *)
(* call uses, whether the calls are made through wrapped methods obtained  *)
(* one for each call or through one wrapped method obtained once.          *)
C34_SyncNamesUnique ==
    \A i, j \in DOMAIN sync_names :
        i # j => sync_names[i] # sync_names[j]
=============================================================================
